---- MODULE Spec2Model ----
(***************************************************************************)
(* Hardware-Monitoring: the websocket hub (ConnectionManager and the /ws   *)
(* handler of src/src/web_server.py), the snapshot builders                *)
(* (get_all_metrics, collect_inventory) and the terminal dashboard loop    *)
(* (MonitorDashboard.run of src/src/monitor.py).                           *)
(*                                                                         *)
(* asyncio runs one coroutine at a time; a coroutine gives up control only *)
(* at an await.  Spec follows the event loop thread through the builds of  *)
(* the /ws and REST handlers, one collector at a time.  HubSpec, about the *)
(* hub, takes every await as a suspension point and the synchronous code   *)
(* between two awaits as one atomic action.                                *)
(***************************************************************************)
EXTENDS Integers, Sequences, FiniteSets, TLC

\* ------------------------------------------------------------------ bounds
NumConns == 2
MaxTicks == 2
NumRest == 2

MaxParts == 3
MaxIfs == 2
MaxGpus == 2
MaxIters == 3

\* Python's None where a number or a connection is expected.
None == -1

Conns == 1..NumConns

VARIABLES
    active_connections, \* ConnectionManager.active_connections, a Python list
    wsPc,               \* position of each /ws handler
    wsEnd,              \* how each /ws handler ended
    wsCur,              \* the local "metrics" of each running handler
    wsTicks,            \* snapshots built so far by each running handler's loop
    received,           \* the snapshots sent on each open websocket by a /ws loop, in order
    bc,                 \* the frame of the latest broadcast() call
    global_active_connections \* the module-level list active_connections

webVars == <<active_connections, wsPc, wsEnd, wsCur, wsTicks, received, bc,
             global_active_connections>>

VARIABLES
    env,                \* what the OS and vendor probes answer during one build
    buildPc,            \* position of the one-shot caller of the builders
    metrics,            \* outcome of get_all_metrics()
    inventory,          \* outcome of collect_inventory()
    args_output,        \* the --output argument of the inventory command, or None
    files,              \* the JSON documents each file holds, in order
    dirs,               \* the directories that exist
    nvml                \* the nvmlInit() and nvmlShutdown() calls that returned so far

buildVars == <<env, buildPc, metrics, inventory, args_output, files, dirs, nvml>>

VARIABLES
    update_interval,    \* MonitorDashboard.update_interval
    running,            \* MonitorDashboard.running
    start_time,         \* MonitorDashboard.start_time
    clock,              \* time.time(), in sleeps of the loop
    dashPc,             \* position of the main thread in run()
    dashExit,           \* how run() was left
    dashLeftAt,         \* history: the position at which run() was left
    dashStop,           \* history: what asked the loop to stop
    layouts             \* create_layout() calls made

dashVars == <<update_interval, running, start_time, clock, dashPc, dashExit,
              dashLeftAt, dashStop, layouts>>

VARIABLES
    loop,               \* the coroutine the event loop thread is running, or None
    co,                 \* the frame of each handler coroutine of the server
    observed                \* the latest snapshot each observer of the server was sent

loopVars == <<loop, co, observed>>

vars == <<webVars, buildVars, dashVars, loopVars>>

\* ------------------------------------------------------------ list helpers
Range(s) == {s[i] : i \in 1..Len(s)}

Count(s, x) == Cardinality({i \in 1..Len(s) : s[i] = x})

\* Python's list.remove(x): drops the first occurrence, ValueError when absent.
ListRemove(l, x) ==
    IF x \in Range(l)
    THEN LET i == CHOOSE k \in 1..Len(l) : l[k] = x /\ \A j \in 1..(k - 1) : l[j] # x
         IN [list |-> SubSeq(l, 1, i - 1) \o SubSeq(l, i + 1, Len(l)), raised |-> FALSE]
    ELSE [list |-> l, raised |-> TRUE]

\* --------------------------------------------------------- ConnectionManager
\* connect(): after accept() returned, append the websocket.
connect(conns, ws) == Append(conns, ws)

disconnectUnguarded(conns, ws) == ListRemove(conns, ws)

\* disconnect(): remove the websocket if it is in the list.
disconnect(conns, ws) ==
    IF ws \in Range(conns) THEN ListRemove(conns, ws)
    ELSE [list |-> conns, raised |-> FALSE]

\* The trailing loop of broadcast(): disconnect every connection whose send raised.
RECURSIVE DisconnectAll(_, _)
DisconnectAll(conns, dl) ==
    IF dl = <<>> THEN [list |-> conns, raised |-> FALSE]
    ELSE LET r == disconnect(conns, Head(dl))
         IN IF r.raised THEN r ELSE DisconnectAll(r.list, Tail(dl))

\* ------------------------------------------------------------------- data
\* The keys of the dict get_all_metrics() returns.
MetricDomains == {"cpu", "memory", "disks", "network", "gpu"}

\* One call of get_all_metrics(), the n-th of handler c: it has no await, so the
\* five collectors run back to back and every domain is read by this call.
BuildAll(n, c) == [d \in MetricDomains |-> <<n, c>>]

\* The n-th snapshot built by the loop of handler c.
Snapshot(n, c) == [kind |-> "snapshot", id |-> n, by |-> c, domains |-> BuildAll(n, c)]
\* The value a caller hands to broadcast().
Payload == [kind |-> "payload", id |-> 0, by |-> None]
NoData == [kind |-> "none", id |-> 0, by |-> None]

DeliverReversed(log, d) == <<d>> \o log

DeliverDropped(log, d) == log

\* A transport that hands out one shared object instead of the serialised text:
\* what was delivered before shows the newest value.
DeliverShared(log, d) == [i \in 1..(Len(log) + 1) |-> d]

\* A completed send_json(): the transport hands the value to the client in order.
Deliver(log, d) == Append(log, d)

RecipientsHub(c, conns) == Range(conns) \cup {c}

\* The handler's loop sends to its own websocket.
Recipients(c, conns) == {c}

IdleFrame ==
    [pc |-> "idle", data |-> NoData, it |-> 0, cur |-> None, disconnected |-> <<>>,
     sent |-> <<>>, atCall |-> <<>>, mutated |-> FALSE, raised |-> FALSE,
     cancelled |-> FALSE]

WebInit ==
    /\ active_connections = <<>>
    /\ global_active_connections = <<>>
    /\ wsPc = [c \in Conns |-> "accepting"]
    /\ wsEnd = [c \in Conns |-> "none"]
    /\ wsCur = [c \in Conns |-> NoData]
    /\ wsTicks = [c \in Conns |-> 0]
    /\ received = [c \in Conns |-> <<>>]
    /\ bc = IdleFrame

\* History: active_connections changed while a broadcast was suspended in a send.
NoteMutation(b) == IF b.pc = "sending" THEN [b EXCEPT !.mutated = TRUE] ELSE b

\* --------------------------------------------------------- websocket_endpoint
\* A handler starts suspended in websocket.accept(), inside manager.connect().

\* The handler returns or is left by an exception: its locals are gone and the
\* server closes the websocket.
CloseFrame(c) ==
    /\ wsCur' = [wsCur EXCEPT ![c] = NoData]
    /\ wsTicks' = [wsTicks EXCEPT ![c] = 0]
    /\ received' = [received EXCEPT ![c] = <<>>]

\* accept() raises: the exception leaves the handler before the append.
WsAcceptFail(c) ==
    /\ UNCHANGED <<buildVars, dashVars, loopVars, global_active_connections>>
    /\ wsPc[c] = "accepting"
    /\ wsPc' = [wsPc EXCEPT ![c] = "closed"]
    /\ wsEnd' = [wsEnd EXCEPT ![c] = "accept_error"]
    /\ UNCHANGED <<active_connections, wsCur, wsTicks, received, bc>>

\* One tick up to its await: metrics = get_all_metrics(); send_json(metrics) begins.
BeginTick(c) ==
    /\ wsTicks' = [wsTicks EXCEPT ![c] = @ + 1]
    /\ wsCur' = [wsCur EXCEPT ![c] = Snapshot(wsTicks[c] + 1, c)]
    /\ wsPc' = [wsPc EXCEPT ![c] = "sending"]

\* accept() returned: append to active_connections, enter the loop, first tick.
WsAccepted(c) ==
    /\ UNCHANGED <<buildVars, dashVars, loopVars, global_active_connections>>
    /\ wsPc[c] = "accepting"
    /\ active_connections' = connect(active_connections, c)
    /\ BeginTick(c)
    /\ bc' = NoteMutation(bc)
    /\ UNCHANGED <<wsEnd, received>>

\* send_json() returned: the snapshot is delivered; the handler sleeps 1 s.
WsSendOk(c) ==
    /\ UNCHANGED <<buildVars, dashVars, loopVars, global_active_connections>>
    /\ wsPc[c] = "sending"
    /\ received' = [o \in Conns |->
                      IF o \in Recipients(c, active_connections)
                      THEN Deliver(received[o], wsCur[c]) ELSE received[o]]
    /\ wsPc' = [wsPc EXCEPT ![c] = "sleeping"]
    /\ UNCHANGED <<active_connections, wsEnd, wsCur, wsTicks, bc>>

\* send_json() raised WebSocketDisconnect ("disconnect") or another Exception
\* ("error", which is logged): both except clauses call manager.disconnect and
\* the handler returns.  An exception of disconnect() itself would leave the
\* handler ("crash").
WsSendFail(c, kind) ==
    /\ UNCHANGED <<buildVars, dashVars, loopVars, global_active_connections>>
    /\ wsPc[c] = "sending"
    /\ LET r == disconnect(active_connections, c)
       IN /\ active_connections' = r.list
          /\ bc' = IF r.list # active_connections THEN NoteMutation(bc) ELSE bc
          /\ wsEnd' = [wsEnd EXCEPT ![c] = IF r.raised THEN "crash" ELSE kind]
    /\ wsPc' = [wsPc EXCEPT ![c] = "closed"]
    /\ CloseFrame(c)

\* asyncio.sleep(1) returned: next tick.
WsWake(c) ==
    /\ UNCHANGED <<buildVars, dashVars, loopVars, global_active_connections>>
    /\ wsPc[c] = "sleeping"
    /\ wsTicks[c] < MaxTicks
    /\ BeginTick(c)
    /\ UNCHANGED <<active_connections, wsEnd, received, bc>>

\* The handler's task is cancelled at an await: CancelledError is a BaseException,
\* which neither except clause catches, so the handler ends without disconnect().
WsCancel(c) ==
    /\ UNCHANGED <<buildVars, dashVars, loopVars, global_active_connections>>
    /\ wsPc[c] \in {"accepting", "sending", "sleeping"}
    /\ wsPc' = [wsPc EXCEPT ![c] = "closed"]
    /\ wsEnd' = [wsEnd EXCEPT ![c] = "cancelled"]
    /\ CloseFrame(c)
    /\ UNCHANGED <<active_connections, bc>>

\* ------------------------------------------------- ConnectionManager.broadcast
\* The for statement over self.active_connections: the list iterator holds an
\* index into the live list.  From frame b, either fetch the next connection and
\* suspend in its send_json, or leave the loop, run the removal loop and return.
BroadcastStep(conns, b) ==
    IF b.it < Len(conns) /\ ~b.raised
    THEN [conns |-> conns,
          frame |-> [b EXCEPT !.pc = "sending", !.cur = conns[b.it + 1], !.it = b.it + 1]]
    ELSE LET r == DisconnectAll(conns, b.disconnected)
         IN [conns |-> r.list,
             frame |-> [b EXCEPT !.pc = "done", !.cur = None,
                                 !.raised = b.raised \/ r.raised]]

ApplyBroadcastStep(b) ==
    LET r == BroadcastStep(active_connections, b)
    IN /\ active_connections' = r.conns
       /\ bc' = r.frame

\* broadcast(data) is called: disconnected = [], the loop starts.
BroadcastCall ==
    /\ UNCHANGED <<buildVars, dashVars, loopVars, global_active_connections>>
    /\ bc.pc \in {"idle", "done"}
    /\ ApplyBroadcastStep([IdleFrame EXCEPT !.data = Payload,
                                          !.atCall = active_connections])
    /\ UNCHANGED <<wsPc, wsEnd, wsCur, wsTicks, received>>

\* The pending connection.send_json(data) returned.
BroadcastSendOk ==
    /\ UNCHANGED <<buildVars, dashVars, loopVars, global_active_connections>>
    /\ bc.pc = "sending"
    /\ wsPc[bc.cur] \in {"sending", "sleeping"}
    /\ ApplyBroadcastStep([bc EXCEPT !.sent = Deliver(@, bc.cur)])
    /\ UNCHANGED <<wsPc, wsEnd, wsCur, wsTicks, received>>

BroadcastAbortOnError(b, c) == [b EXCEPT !.raised = TRUE]

\* The except clause of broadcast(): log and remember the connection.
BroadcastOnError(b, c) == [b EXCEPT !.disconnected = Append(@, c)]

\* The pending connection.send_json(data) raised.
BroadcastSendFail ==
    /\ UNCHANGED <<buildVars, dashVars, loopVars, global_active_connections>>
    /\ bc.pc = "sending"
    /\ ApplyBroadcastStep(BroadcastOnError(bc, bc.cur))
    /\ UNCHANGED <<wsPc, wsEnd, wsCur, wsTicks, received>>

\* The task awaiting broadcast() is cancelled while it is suspended in a send:
\* CancelledError is a BaseException, which "except Exception" does not catch, so
\* it leaves broadcast() and the removal loop does not run.
BroadcastCancel ==
    /\ UNCHANGED <<buildVars, dashVars, loopVars, global_active_connections>>
    /\ bc.pc = "sending"
    /\ bc' = [bc EXCEPT !.pc = "done", !.cur = None, !.raised = TRUE, !.cancelled = TRUE]
    /\ UNCHANGED <<active_connections, wsPc, wsEnd, wsCur, wsTicks, received>>

\* ============================================================ snapshot builders
\* The outcome of a call: it raised, or it returned value.
Ok(v) == [raised |-> FALSE, value |-> v]
Raised == [raised |-> TRUE, value |-> None]

\* try: ... except Exception: (log,) return default
Catch(r, default) == IF r.raised THEN Ok(default) ELSE r

\* Python's l[:n].
Take(l, n) == SubSeq(l, 1, IF Len(l) < n THEN Len(l) ELSE n)

\* ---------------------------------------------------------------- gpu_utils
PYNVML_AVAILABLE(g) == g.pynvml # "absent"

GPUInfo(i, via) ==
    [index |-> i, name |-> "GPU", driver_version |-> "535", cuda_version |-> "12.2",
     total_memory |-> 8192, via |-> via]

GpuList(n, via) == [k \in 1..n |-> GPUInfo(k - 1, via)]

check_nvidia_smi_uncaught(g) ==
    CASE g.smi \in {"oserror", "timeout"} -> Raised
      [] g.smi = "absent" -> Ok(FALSE)
      [] OTHER -> Ok(TRUE)

\* check_nvidia_smi(): FileNotFoundError, TimeoutExpired and SubprocessError give
\* False; any other OSError of subprocess.run (PermissionError, ...) escapes.
\* ("hangs": the version check answers in time, the later queries time out.)
check_nvidia_smi(g) ==
    CASE g.smi = "oserror" -> Raised
      [] g.smi \in {"absent", "timeout"} -> Ok(FALSE)
      [] OTHER -> Ok(TRUE)

NoGpus == [driver_version |-> "None", cuda_version |-> "None", gpus |-> <<>>]

\* get_gpu_info_nvidia_smi(): the check runs outside the try statement.
get_gpu_info_nvidia_smi(g) ==
    LET chk == check_nvidia_smi(g)
    IN IF chk.raised THEN Raised
       ELSE IF ~chk.value THEN Ok(NoGpus)
       ELSE IF g.smi \in {"fails", "hangs"} THEN Ok(NoGpus)
       ELSE Ok([driver_version |-> IF g.n > 0 THEN "535" ELSE "None",
                cuda_version |-> IF g.n > 0 THEN "12.2" ELSE "None",
                gpus |-> GpuList(g.n, "smi")])

\* get_gpu_info_pynvml(): None when pynvml is absent or raises.
get_gpu_info_pynvml(g) ==
    IF ~PYNVML_AVAILABLE(g) \/ g.pynvml = "fail"
    THEN [none |-> TRUE, gpus |-> <<>>]
    ELSE [none |-> FALSE, gpus |-> GpuList(g.n, "pynvml")]

\* The return statement get_gpu_info() reaches: the one inside "if gpus:" or the
\* nvidia-smi fallback at its end.
GpuInfoPath(g) ==
    IF PYNVML_AVAILABLE(g) /\ get_gpu_info_pynvml(g).gpus # <<>>
    THEN "pynvml" ELSE "nvidia-smi"

get_gpu_info_cli_only(g) == get_gpu_info_nvidia_smi(g)

\* get_gpu_info(): pynvml first, nvidia-smi when pynvml gave nothing.
get_gpu_info(g) ==
    LET lib == get_gpu_info_pynvml(g)
    IN IF PYNVML_AVAILABLE(g) /\ ~lib.none /\ lib.gpus # <<>>
       THEN Ok([driver_version |-> lib.gpus[1].driver_version,
                cuda_version |-> lib.gpus[1].cuda_version,
                gpus |-> lib.gpus])
       ELSE get_gpu_info_nvidia_smi(g)

\* The result of a metrics query: it raised, returned None (found = FALSE) or a dict.
NoMetrics == [raised |-> FALSE, found |-> FALSE, value |-> None]
MetricsRaised == [raised |-> TRUE, found |-> FALSE, value |-> None]

\* A variant without the zero answer for an empty memory.
MetricsDictFullWhenEmpty(used, total, temperature, power) ==
    [utilization |-> 50, temperature |-> temperature, memory_used |-> used,
     memory_total |-> total,
     memory_percent |-> IF total > 0 THEN (used * 100) \div total ELSE 100,
     power |-> power]

\* The dict both paths build: memory_percent is used / total * 100, and 0 when
\* the total is 0.
MetricsDict(used, total, temperature, power) ==
    [utilization |-> 50, temperature |-> temperature, memory_used |-> used,
     memory_total |-> total,
     memory_percent |-> IF total > 0 THEN (used * 100) \div total ELSE 0,
     power |-> power]

\* get_gpu_metrics_nvidia_smi(): the check runs outside the try statement.  A
\* reading the GPU lacks is printed as "[N/A]": float() raises ValueError on it,
\* the except clause logs and None is returned.
get_gpu_metrics_nvidia_smi(g, index) ==
    LET chk == check_nvidia_smi(g)
    IN IF chk.raised THEN MetricsRaised
       ELSE IF ~chk.value THEN NoMetrics
       ELSE IF g.smi \in {"fails", "hangs"} \/ index >= g.n THEN NoMetrics
       ELSE IF g.missing # {} THEN NoMetrics
       ELSE [raised |-> FALSE, found |-> TRUE, value |-> MetricsDict(g.mem[1], g.mem[2], 60, 120)]

\* get_gpu_metrics(): pynvml, and nvidia-smi when pynvml is absent or raises.  The
\* temperature and power queries have their own try/except giving None.
get_gpu_metrics(g, index) ==
    IF ~PYNVML_AVAILABLE(g) THEN get_gpu_metrics_nvidia_smi(g, index)
    ELSE IF g.pynvml = "fail" \/ index \in g.bad \/ index >= g.n
         THEN get_gpu_metrics_nvidia_smi(g, index)
         ELSE [raised |-> FALSE, found |-> TRUE,
               value |-> MetricsDict(g.mem[1], g.mem[2],
                                     IF "temperature" \in g.missing THEN None ELSE 60,
                                     IF "power" \in g.missing THEN None ELSE 120)]

\* The NVML sessions of the queries: pynvml.nvmlInit() opens one and
\* pynvml.nvmlShutdown() closes one.  A pynvml that fails does so in nvmlInit().
NoNvmlCalls == [inits |-> 0, shutdowns |-> 0]

NvmlAdd(a, b) == [inits |-> a.inits + b.inits, shutdowns |-> a.shutdowns + b.shutdowns]

\* get_gpu_info(): get_gpu_info_pynvml() calls nvmlShutdown() before "return gpus".
NvmlOfGpuInfo(g) ==
    IF g.pynvml = "ok" THEN [inits |-> 1, shutdowns |-> 1] ELSE NoNvmlCalls

\* get_gpu_metrics(): nvmlShutdown() stands before the return of the dict only; a
\* query that raises after nvmlInit() goes to the except clause and on to
\* nvidia-smi.
NvmlOfGpuMetrics(g, index) ==
    IF g.pynvml # "ok" THEN NoNvmlCalls
    ELSE [inits |-> 1, shutdowns |-> IF index \in g.bad \/ index >= g.n THEN 0 ELSE 1]

\* The calls in the loop of get_gpu_data over gpu_list[k..], up to and with the
\* metrics query that raises.
RECURSIVE NvmlOfGpuLoop(_, _, _)
NvmlOfGpuLoop(g, gpus, k) ==
    IF k > Len(gpus) THEN NoNvmlCalls
    ELSE IF get_gpu_metrics(g, gpus[k].index).raised
         THEN NvmlOfGpuMetrics(g, gpus[k].index)
         ELSE NvmlAdd(NvmlOfGpuMetrics(g, gpus[k].index), NvmlOfGpuLoop(g, gpus, k + 1))

NvmlOfGpuData(e) ==
    LET info == get_gpu_info(e.gpu)
    IN NvmlAdd(NvmlOfGpuInfo(e.gpu),
               IF info.raised THEN NoNvmlCalls
               ELSE NvmlOfGpuLoop(e.gpu, info.value.gpus, 1))

\* --------------------------------------------------- web_server.py collectors
PartitionLimit == 10
InterfaceLimit == 10

CpuReading(e) ==
    [per_core |-> <<10, 30>>, overall |-> 20,
     frequency_mhz |-> IF e.cpu = "nofreq" THEN None ELSE 2400, cores |-> 2]

ZeroCpu == [per_core |-> <<>>, overall |-> 0, frequency_mhz |-> None, cores |-> 0]

get_cpu_data(e) ==
    Catch(IF e.cpu = "raise" THEN Raised ELSE Ok(CpuReading(e)), ZeroCpu)

MemoryReading ==
    [total |-> 16000, available |-> 8000, used |-> 8000, percent |-> 50,
     swap_total |-> 2000, swap_used |-> 0, swap_percent |-> 0]

ZeroMemory ==
    [total |-> 0, available |-> 0, used |-> 0, percent |-> 0,
     swap_total |-> 0, swap_used |-> 0, swap_percent |-> 0]

get_memory_data(e) ==
    Catch(IF e.mem = "raise" THEN Raised ELSE Ok(MemoryReading), ZeroMemory)

DiskEntry(k) ==
    [device |-> k, mountpoint |-> k, fstype |-> "ext4", total |-> 1000, used |-> 400,
     free |-> 600, percent |-> 40]

RECURSIVE DiskLoopStopAtError(_, _)
DiskLoopStopAtError(parts, k) ==
    IF k > Len(parts) \/ parts[k] # "ok" THEN <<>>
    ELSE <<DiskEntry(k)>> \o DiskLoopStopAtError(parts, k + 1)

\* The loop over partitions[from..]: an entry per readable partition, the
\* partitions whose disk_usage raised are skipped.
RECURSIVE DiskLoop(_, _)
DiskLoop(parts, k) ==
    IF k > Len(parts) THEN <<>>
    ELSE (IF parts[k] = "ok" THEN <<DiskEntry(k)>> ELSE <<>>) \o DiskLoop(parts, k + 1)

get_disk_data(e) ==
    Catch(IF e.disk.raised THEN Raised
          ELSE Ok(DiskLoop(Take(e.disk.parts, PartitionLimit), 1)), <<>>)

NetEntry(name) ==
    [name |-> name, is_up |-> TRUE,
     speed_mbps |-> IF name = "eth0" THEN 1000 ELSE None,
     bytes_sent |-> IF name = "wlan0" THEN 0 ELSE 500,
     bytes_recv |-> IF name = "wlan0" THEN 0 ELSE 700]

RECURSIVE NetLoop(_, _)
NetLoop(ifs, k) ==
    IF k > Len(ifs) THEN <<>>
    ELSE (IF ifs[k] = "lo" THEN <<>> ELSE <<NetEntry(ifs[k])>>) \o NetLoop(ifs, k + 1)

\* A variant dropping "lo" first and cutting the result to the limit afterwards.
get_network_data_filter_first(e) ==
    Catch(IF e.net.raised THEN Raised
          ELSE Ok(Take(NetLoop(e.net.ifs, 1), InterfaceLimit)), <<>>)

get_network_data(e) ==
    Catch(IF e.net.raised THEN Raised
          ELSE Ok(NetLoop(Take(e.net.ifs, InterfaceLimit), 1)), <<>>)

LiveGpuEntry(gpu, m) ==
    [index |-> gpu.index, name |-> gpu.name, utilization |-> m.utilization,
     temperature |-> m.temperature, memory_used |-> m.memory_used,
     memory_total |-> m.memory_total, memory_percent |-> m.memory_percent,
     power |-> m.power]

BlankGpuEntry(gpu) ==
    [index |-> gpu.index, name |-> gpu.name, utilization |-> None, temperature |-> None,
     memory_used |-> None, memory_total |-> gpu.total_memory, memory_percent |-> None,
     power |-> None]

\* A variant whose except clause starts over with an empty list.
GpuLoopAllOrNothing(g, gpus, k) ==
    IF \E j \in k..Len(gpus) : get_gpu_metrics(g, gpus[j].index).raised THEN <<>>
    ELSE [i \in 1..(Len(gpus) - k + 1) |->
            LET m == get_gpu_metrics(g, gpus[k + i - 1].index)
            IN IF m.found THEN LiveGpuEntry(gpus[k + i - 1], m.value)
               ELSE BlankGpuEntry(gpus[k + i - 1])]

\* The loop of get_gpu_data over gpu_list[k..]: an exception of get_gpu_metrics
\* leaves the loop for the except clause, and the entries appended so far stay.
RECURSIVE GpuLoop(_, _, _)
GpuLoop(g, gpus, k) ==
    IF k > Len(gpus) THEN <<>>
    ELSE LET m == get_gpu_metrics(g, gpus[k].index)
         IN IF m.raised THEN <<>>
            ELSE <<IF m.found THEN LiveGpuEntry(gpus[k], m.value) ELSE BlankGpuEntry(gpus[k])>>
                 \o GpuLoop(g, gpus, k + 1)

get_gpu_data(e) ==
    LET info == get_gpu_info(e.gpu)
    IN IF info.raised THEN Ok(<<>>) ELSE Ok(GpuLoop(e.gpu, info.value.gpus, 1))

get_all_metrics_stamped(e) ==
    Ok([timestamp |-> e.now, cpu |-> get_cpu_data(e).value,
        memory |-> get_memory_data(e).value, disks |-> get_disk_data(e).value,
        network |-> get_network_data(e).value, gpu |-> get_gpu_data(e).value])

\* get_all_metrics(): a dict of the five collectors' results; an exception of a
\* collector would leave it.
get_all_metrics(e) ==
    LET cpu == get_cpu_data(e)
        memory == get_memory_data(e)
        disks == get_disk_data(e)
        network == get_network_data(e)
        gpu == get_gpu_data(e)
    IN IF cpu.raised \/ memory.raised \/ disks.raised \/ network.raised \/ gpu.raised
       THEN Raised
       ELSE Ok([cpu |-> cpu.value, memory |-> memory.value, disks |-> disks.value,
                network |-> network.value, gpu |-> gpu.value])

\* ------------------------------------------------------ inventory.py collectors
CpuInfo(e) ==
    IF e.cpu = "nofreq"
    THEN [model |-> "cpu", physical_cores |-> 1, logical_threads |-> 2,
          architecture |-> "x86_64"]
    ELSE [model |-> "cpu", physical_cores |-> 1, logical_threads |-> 2,
          architecture |-> "x86_64", base_frequency_mhz |-> 2400,
          min_frequency_mhz |-> 800, max_frequency_mhz |-> 3600]

UnknownCpu ==
    [model |-> "Unknown", physical_cores |-> 0, logical_threads |-> 0,
     architecture |-> "Unknown"]

get_cpu_info(e) == Catch(IF e.cpu = "raise" THEN Raised ELSE Ok(CpuInfo(e)), UnknownCpu)

MemoryInfo ==
    [total_bytes |-> 16000, available_bytes |-> 8000, used_bytes |-> 8000,
     usage_percent |-> 50, swap_total_bytes |-> 2000, swap_used_bytes |-> 0,
     swap_percent |-> 0]

ZeroMemoryInfo ==
    [total_bytes |-> 0, available_bytes |-> 0, used_bytes |-> 0, usage_percent |-> 0,
     swap_total_bytes |-> 0, swap_used_bytes |-> 0, swap_percent |-> 0]

get_memory_info(e) ==
    Catch(IF e.mem = "raise" THEN Raised ELSE Ok(MemoryInfo), ZeroMemoryInfo)

DiskInfoEntry(k) ==
    [device |-> k, mountpoint |-> k, fstype |-> "ext4", total_bytes |-> 1000,
     used_bytes |-> 400, free_bytes |-> 600, usage_percent |-> 40]

RECURSIVE DiskInfoLoop(_, _)
DiskInfoLoop(parts, k) ==
    IF k > Len(parts) THEN <<>>
    ELSE (IF parts[k] = "ok" THEN <<DiskInfoEntry(k)>> ELSE <<>>)
         \o DiskInfoLoop(parts, k + 1)

get_disk_info(e) ==
    Catch(IF e.disk.raised THEN Raised ELSE Ok(DiskInfoLoop(e.disk.parts, 1)), <<>>)

NetInfoEntry(name) ==
    [name |-> name, addresses |-> <<[family |-> "AF_INET", address |-> name]>>,
     is_up |-> TRUE, speed_mbps |-> IF name = "eth0" THEN 1000 ELSE 0]

RECURSIVE NetInfoLoop(_, _)
NetInfoLoop(ifs, k) ==
    IF k > Len(ifs) THEN <<>>
    ELSE (IF ifs[k] = "lo" THEN <<>> ELSE <<NetInfoEntry(ifs[k])>>)
         \o NetInfoLoop(ifs, k + 1)

get_network_info(e) ==
    Catch(IF e.net.raised THEN Raised ELSE Ok(NetInfoLoop(e.net.ifs, 1)), <<>>)

GpuDict(gpu) ==
    [index |-> gpu.index, name |-> gpu.name, driver_version |-> gpu.driver_version,
     cuda_version |-> gpu.cuda_version, total_memory_bytes |-> gpu.total_memory]

NoGpuDict ==
    [driver_version |-> "None", cuda_version |-> "None", gpus |-> <<>>, gpu_count |-> 0]

get_gpu_info_dict(e) ==
    LET info == get_gpu_info(e.gpu)
    IN Catch(IF info.raised THEN Raised
             ELSE Ok([driver_version |-> info.value.driver_version,
                      cuda_version |-> info.value.cuda_version,
                      gpus |-> [k \in 1..Len(info.value.gpus) |-> GpuDict(info.value.gpus[k])],
                      gpu_count |-> Len(info.value.gpus)]),
             NoGpuDict)

SystemInfo == [hostname |-> "host", os |-> "Linux"]

\* collect_inventory(): timestamp, system and the five domains.
collect_inventory(e) ==
    LET cpu == get_cpu_info(e)
        memory == get_memory_info(e)
        disks == get_disk_info(e)
        network == get_network_info(e)
        gpu == get_gpu_info_dict(e)
    IN IF cpu.raised \/ memory.raised \/ disks.raised \/ network.raised \/ gpu.raised
       THEN Raised
       ELSE Ok([timestamp |-> e.now, system |-> SystemInfo, cpu |-> cpu.value,
                memory |-> memory.value, disks |-> disks.value,
                network |-> network.value, gpu |-> gpu.value])

\* print_inventory_summary(): the GPU section.
InventoryGpuSummary(inv) ==
    IF inv.gpu.gpu_count > 0 THEN "GPU Count" ELSE "No NVIDIA GPUs detected"

\* ------------------------------------------------ monitor.py: the GPU panel
NoTable == [none |-> TRUE, rows |-> <<>>]

\* The row loop of get_gpu_table over gpus[k..]: a row per GPU, "N/A" cells when
\* get_gpu_metrics gave None; an exception of get_gpu_metrics leaves the loop.
RECURSIVE GpuRows(_, _, _)
GpuRows(g, gpus, k) ==
    IF k > Len(gpus) THEN Ok(<<>>)
    ELSE LET m == get_gpu_metrics(g, gpus[k].index)
             rest == GpuRows(g, gpus, k + 1)
         IN IF m.raised \/ rest.raised THEN Raised
            ELSE Ok(<<[name |-> gpus[k].name, known |-> m.found]>> \o rest.value)

get_gpu_table_unguarded(g) ==
    LET info == get_gpu_info(g)
    IN IF info.raised THEN NoTable
       ELSE LET r == GpuRows(g, info.value.gpus, 1)
            IN IF r.raised THEN NoTable ELSE [none |-> FALSE, rows |-> r.value]

\* get_gpu_table(): None when there is no GPU or when anything raised.
get_gpu_table(g) ==
    LET info == get_gpu_info(g)
    IN IF info.raised THEN NoTable
       ELSE IF info.value.gpus = <<>> THEN NoTable
       ELSE LET r == GpuRows(g, info.value.gpus, 1)
            IN IF r.raised THEN NoTable ELSE [none |-> FALSE, rows |-> r.value]

TableInterfaceLimit == 5

\* get_network_table(): a row per interface among the first five that is not
\* named "lo"; one "Error" row when the psutil queries raise.
get_network_table(e) ==
    IF e.net.raised THEN <<"Error">>
    ELSE SelectSeq(Take(e.net.ifs, TableInterfaceLimit), LAMBDA name : name # "lo")

\* create_layout(): the GPU panel holds the table, or the text when it is None.
GpuPanel(g) ==
    LET gpu_table == get_gpu_table(g)
    IN IF ~gpu_table.none
       THEN [text |-> "", rows |-> gpu_table.rows]
       ELSE [text |-> "No NVIDIA GPUs detected", rows |-> <<>>]

\* ------------------------------------------------------- probe environments
RECURSIVE SeqsUpTo(_, _)
SeqsUpTo(S, n) ==
    IF n = 0 THEN {<<>>}
    ELSE LET shorter == SeqsUpTo(S, n - 1)
         IN shorter \cup {Append(q, x) : q \in shorter, x \in S}

Distinct(q) == \A i \in 1..Len(q), j \in 1..Len(q) : i # j => q[i] # q[j]

\* Interface names the OS may report: the loopback interface is "lo" on Linux
\* and "lo0" on macOS and the BSDs.
InterfaceNames == {"lo", "lo0", "eth0", "wlan0"}

\* What the OS calls its loopback interface, whatever the name test of the code.
IsLoopback(name) == name \in {"lo", "lo0"}

CpuCases == {"ok", "nofreq", "raise"}
MemCases == {"ok", "raise"}
DiskCases ==
    {[raised |-> TRUE, parts |-> <<>>]}
    \cup {[raised |-> FALSE, parts |-> q] : q \in SeqsUpTo({"ok", "denied", "error"}, MaxParts)}
NetCases ==
    {[raised |-> TRUE, ifs |-> <<>>]}
    \cup {[raised |-> FALSE, ifs |-> q] :
            q \in {r \in SeqsUpTo(InterfaceNames, MaxIfs) : Distinct(r)}}
\* Machines with more partitions and interfaces than the web collectors read:
\* one past the limit, all readable, or with a denied partition or the loopback
\* interface at the front, at the limit or just past it.
ManyInterfaces ==
    <<"eth0", "eth1", "eth2", "eth3", "eth4", "eth5", "eth6", "eth7", "eth8", "eth9",
      "eth10", "eth11">>

InsertAt(q, k, x) == SubSeq(q, 1, k - 1) \o <<x>> \o SubSeq(q, k, Len(q))

LongNetCases ==
    {[raised |-> FALSE, ifs |-> SubSeq(ManyInterfaces, 1, InterfaceLimit + 1)]}
    \cup {[raised |-> FALSE,
           ifs |-> InsertAt(SubSeq(ManyInterfaces, 1, InterfaceLimit), k, "lo")] :
            k \in {1, InterfaceLimit, InterfaceLimit + 1}}

LongDiskCases ==
    {[raised |-> FALSE, parts |-> [i \in 1..(PartitionLimit + 1) |-> "ok"]]}
    \cup {[raised |-> FALSE,
           parts |-> [i \in 1..(PartitionLimit + 1) |-> IF i = k THEN "denied" ELSE "ok"]] :
            k \in {1, PartitionLimit, PartitionLimit + 1}}

\* The <<memory_used, memory_total>> pairs a device reports.
UsualMemory == <<2048, 8192>>
MemoryReadings == {<<0, 0>>, <<0, 8192>>, UsualMemory, <<8192, 8192>>}

GpuCases ==
    UNION {[pynvml : {"absent", "ok", "fail"},
            smi : {"absent", "ok", "timeout", "hangs", "oserror", "fails"},
            n : {n}, bad : SUBSET (0..(n - 1)),
            missing : SUBSET {"temperature", "power"},
            mem : {UsualMemory}] : n \in 0..MaxGpus}

\* One working GPU on either path, its memory reading ranging over an empty, an
\* idle, a partly used and a full memory.
GpuMemCases ==
    [pynvml : {"absent", "ok"}, smi : {"ok"}, n : {1}, bad : {{}}, missing : {{}},
     mem : MemoryReadings]

\* The machine of an ordinary run, and the coarse alternatives of each domain.
PlainEnv ==
    [cpu |-> "ok", mem |-> "ok", disk |-> [raised |-> FALSE, parts |-> <<"ok">>],
     net |-> [raised |-> FALSE, ifs |-> <<"lo", "eth0">>],
     gpu |-> [pynvml |-> "absent", smi |-> "absent", n |-> 0, bad |-> {},
              missing |-> {}, mem |-> UsualMemory], now |-> 1]

CoarseEnvs ==
    [cpu : {"ok", "raise"}, mem : {"ok", "raise"},
     disk : {PlainEnv.disk, [raised |-> TRUE, parts |-> <<>>]},
     net : {PlainEnv.net, [raised |-> TRUE, ifs |-> <<>>]},
     gpu : {PlainEnv.gpu, [pynvml |-> "absent", smi |-> "oserror", n |-> 1, bad |-> {},
                           missing |-> {}, mem |-> UsualMemory]},
     now : {1}]

\* Every combination of failing and working domains, with one domain ranging
\* over all of its cases.
BuildEnvs ==
    UNION { {[e EXCEPT !.cpu = x] : x \in CpuCases}
            \cup {[e EXCEPT !.mem = x] : x \in MemCases}
            \cup {[e EXCEPT !.disk = x] : x \in DiskCases \cup LongDiskCases}
            \cup {[e EXCEPT !.net = x] : x \in NetCases \cup LongNetCases}
            \cup {[e EXCEPT !.gpu = x] : x \in GpuCases \cup GpuMemCases} : e \in CoarseEnvs }

NotBuilt == [raised |-> FALSE, value |-> None]

\* The files the inventory command can write: the path the caller gives and the
\* default name inventory_<timestamp>.json.  A file holds a sequence of dumps;
\* the caller's path holds the dump of an earlier run.
\* args.output when the command is run without --output (Python None).
NoOutput == "None"
GivenPath == "out/inventory.json"
NewDirPath == "new/inventory.json"
DefaultPath == "inventory_<timestamp>.json"
Paths == {GivenPath, NewDirPath, DefaultPath}
\* output_file.parent
Parent(path) ==
    CASE path = GivenPath -> "out"
      [] path = NewDirPath -> "new"
      [] OTHER -> "."
\* The text of a complete dump, and the text json.dump had written when it raised.
Dump(run) == [kind |-> "inventory", run |-> run]
Truncated(run) == [kind |-> "incomplete", run |-> run]
\* Before the run: an earlier run left its dump at out/inventory.json; the
\* directory "new" does not exist.
FilesBefore == [p \in Paths |-> IF p = GivenPath THEN <<Dump("earlier")>> ELSE <<>>]
DirsBefore == {".", "out"}

BuildIdle ==
    /\ env = PlainEnv
    /\ buildPc = "off"
    /\ metrics = NotBuilt
    /\ inventory = NotBuilt
    /\ args_output = NoOutput
    /\ files = FilesBefore
    /\ dirs = DirsBefore
    /\ nvml = NoNvmlCalls

BuildInit ==
    /\ env \in BuildEnvs
    /\ buildPc = "start"
    /\ metrics = NotBuilt
    /\ inventory = NotBuilt
    /\ args_output = NoOutput
    /\ files = FilesBefore
    /\ dirs = DirsBefore
    /\ nvml = NoNvmlCalls

\* /api/metrics: one call of get_all_metrics().
GetMetrics ==
    /\ UNCHANGED <<webVars, dashVars, loopVars>>
    /\ buildPc = "start"
    /\ metrics' = get_all_metrics(env)
    /\ nvml' = NvmlAdd(nvml, NvmlOfGpuData(env))
    /\ buildPc' = "metrics"
    /\ UNCHANGED <<env, inventory, args_output, files, dirs>>

\* The inventory command and /api/inventory: one call of collect_inventory().
CollectInventory ==
    /\ UNCHANGED <<webVars, dashVars, loopVars>>
    /\ buildPc = "metrics"
    /\ inventory' = collect_inventory(env)
    /\ nvml' = NvmlAdd(nvml, NvmlOfGpuInfo(env.gpu))
    /\ buildPc' = "done"
    /\ UNCHANGED <<env, metrics, args_output, files, dirs>>

\* open(output_file, "a") in place of "w": the dump is added behind the content.
WriteAppending(content, doc) == Append(content, doc)

\* open(output_file, "w") and json.dump: the file holds the one document.
Write(content, doc) == <<doc>>

\* main() of inventory.py: the file is args.output when given, and a file named
\* after the time of the run otherwise.
OutputFile(output) == IF output # NoOutput THEN output ELSE DefaultPath

\* save_inventory(): output_file.parent.mkdir(parents=True, exist_ok=True), then
\* open(output_file, "w") and json.dump.  mkdir raised ("mkdir_error": nothing is
\* created), open raised ("open_error": the directory is there, no file is
\* touched), json.dump raised after open had emptied the file ("write_error":
\* the file holds what was written until then), or the dump was written ("ok").
\* An exception is logged and raised again.
save_inventory(fs, ds, doc, output_file, outcome) ==
    LET made == ds \cup {Parent(output_file)}
    IN CASE outcome = "mkdir_error" -> [files |-> fs, dirs |-> ds]
         [] outcome = "open_error" -> [files |-> fs, dirs |-> made]
         [] outcome = "write_error" ->
               [files |-> [fs EXCEPT ![output_file] = <<Truncated(doc.run)>>],
                dirs |-> made]
         [] OTHER -> [files |-> [fs EXCEPT ![output_file] = Write(@, doc)],
                      dirs |-> made]

\* The rest of main() after collect_inventory() returned: choose the file, save.
SaveInventory(output, outcome) ==
    /\ UNCHANGED <<webVars, dashVars, loopVars>>
    /\ buildPc = "done"
    /\ ~inventory.raised
    /\ args_output' = output
    /\ outcome = "mkdir_error" => Parent(OutputFile(output)) \notin dirs
    /\ LET r == save_inventory(files, dirs, Dump("this"), OutputFile(output), outcome)
       IN files' = r.files /\ dirs' = r.dirs
    /\ buildPc' = IF outcome = "ok" THEN "saved" ELSE "save_error"
    /\ UNCHANGED <<env, metrics, inventory, nvml>>

\* ============================================================ MonitorDashboard
\* The values main() may pass as --interval.
Intervals == {-1, 0, 1}

Keys == {"none", "q", "Q", "r", "R", "x", "ioerror"}

\* __init__: running = True, reset_stats(), the signal handlers are installed.
DashInit ==
    /\ update_interval \in Intervals
    /\ running = TRUE
    /\ start_time = 0
    /\ clock = 0
    /\ dashPc = "ready"
    /\ dashExit = "none"
    /\ dashLeftAt = "none"
    /\ dashStop = "none"
    /\ layouts = 0

DashIdle ==
    /\ update_interval = 1
    /\ running = TRUE
    /\ start_time = 0
    /\ clock = 0
    /\ dashPc = "off"
    /\ dashExit = "none"
    /\ dashLeftAt = "none"
    /\ dashStop = "none"
    /\ layouts = 0

\* run() is left, by return or by an exception passing its finally clause.
DashLeave(how) ==
    /\ dashPc' = "exited"
    /\ dashExit' = how
    /\ dashLeftAt' = dashPc

\* How the run-up of run() ends: the with statement is entered, create_layout()
\* raised, or Live() or its __enter__ raised.
RunUpOutcomes == {"entered", "layout_error", "live_error"}

\* with Live(self.create_layout(), refresh_per_second=1.0 / self.update_interval,
\* screen=True) as live: the arguments are evaluated in order, so create_layout()
\* has returned its layout when the division is made.  The division raises
\* ZeroDivisionError for an interval of 0 and gives a negative rate for a negative
\* interval; run() has no test of the interval of its own.  create_layout() may
\* raise ("layout_error": no layout was built), and so may Live() or its
\* __enter__ ("live_error").  run() catches KeyboardInterrupt only.
RunUp(outcome) ==
    /\ layouts' = IF outcome = "layout_error" THEN layouts ELSE layouts + 1
    /\ IF outcome # "entered" \/ update_interval = 0
       THEN DashLeave("error")
       ELSE dashPc' = "test" /\ UNCHANGED <<dashExit, dashLeftAt>>

\* run() up to the loop, Live() and its __enter__ having returned.
DashRunEnter ==
    /\ UNCHANGED <<webVars, buildVars, loopVars>>
    /\ dashPc = "ready"
    /\ RunUp("entered")
    /\ UNCHANGED <<update_interval, running, start_time, clock, dashStop>>

\* The run-up ends by an exception of create_layout() or of Live.  Whether Live
\* takes a rate that is not positive is up to the rich library: its constructor
\* asserts refresh_per_second > 0, and an assert statement is skipped by an
\* interpreter started with -O.
DashRunEnterError(outcome) ==
    /\ UNCHANGED <<webVars, buildVars, loopVars>>
    /\ dashPc = "ready"
    /\ outcome # "entered"
    /\ RunUp(outcome)
    /\ UNCHANGED <<update_interval, running, start_time, clock, dashStop>>

\* while self.running:
DashLoopTest ==
    /\ UNCHANGED <<webVars, buildVars, loopVars>>
    /\ dashPc = "test"
    /\ IF running
       THEN /\ clock < MaxIters
            /\ dashPc' = "update"
            /\ UNCHANGED <<dashExit, dashLeftAt>>
       ELSE DashLeave("return")
    /\ UNCHANGED <<update_interval, running, start_time, clock, dashStop, layouts>>

\* live.update(self.create_layout()): the argument is evaluated first, so
\* create_layout() has returned when live.update() is called.
DashUpdate ==
    /\ UNCHANGED <<webVars, buildVars, loopVars>>
    /\ dashPc = "update"
    /\ layouts' = layouts + 1
    /\ dashPc' = "sleep"
    /\ UNCHANGED <<update_interval, running, start_time, clock, dashExit, dashLeftAt,
                   dashStop>>

\* create_layout() raises: run() catches KeyboardInterrupt only.
DashTickError ==
    /\ UNCHANGED <<webVars, buildVars, loopVars>>
    /\ dashPc = "update"
    /\ DashLeave("error")
    /\ UNCHANGED <<update_interval, running, start_time, clock, dashStop, layouts>>

\* live.update() raises, after create_layout() has returned its layout.
DashLiveUpdateError ==
    /\ UNCHANGED <<webVars, buildVars, loopVars>>
    /\ dashPc = "sleep"
    /\ DashLeave("error")
    /\ UNCHANGED <<update_interval, running, start_time, clock, dashStop, layouts>>

\* live.update() returned; time.sleep(self.update_interval) raises ValueError for
\* a negative interval.
DashSleepError ==
    /\ UNCHANGED <<webVars, buildVars, loopVars>>
    /\ dashPc = "sleep"
    /\ update_interval < 0
    /\ DashLeave("error")
    /\ UNCHANGED <<update_interval, running, start_time, clock, dashStop, layouts>>

\* live.update() returned; time.sleep(self.update_interval)
DashSleep ==
    /\ UNCHANGED <<webVars, buildVars, loopVars>>
    /\ dashPc = "sleep"
    /\ update_interval >= 0
    /\ clock' = clock + 1
    /\ dashPc' = "keys"
    /\ UNCHANGED <<update_interval, running, start_time, dashExit, dashLeftAt, dashStop,
                   layouts>>

\* reset_stats(): start_time = time.time()
reset_stats(now) == now

\* A variant comparing the key as read, without lower().
KeyEffectCaseSensitive(key) ==
    CASE key = "q" -> "break"
      [] key = "r" -> "reset"
      [] OTHER -> "pass"

\* What the key read in the loop does: leave the loop, reset, or nothing.
KeyEffect(key) ==
    CASE key \in {"q", "Q"} -> "break"
      [] key \in {"r", "R"} -> "reset"
      [] OTHER -> "pass"

\* The non-blocking key check that ends an iteration.
DashKey(key) ==
    /\ UNCHANGED <<webVars, buildVars, loopVars>>
    /\ dashPc = "keys"
    /\ LET effect == KeyEffect(key)
       IN /\ start_time' = IF effect = "reset" THEN reset_stats(clock) ELSE start_time
          /\ IF effect = "break"
             THEN /\ DashLeave("return")
                  /\ dashStop' = IF dashStop = "none" THEN "quit" ELSE dashStop
             ELSE /\ dashPc' = "test"
                  /\ UNCHANGED <<dashExit, dashLeftAt, dashStop>>
    /\ UNCHANGED <<update_interval, running, clock, layouts>>

\* _signal_handler: running = False, then sys.exit(0) raises SystemExit where the
\* main thread was interrupted.  No except clause of run() catches it.  In the
\* run-up the signal may arrive before create_layout() was called or after it
\* returned (built): inside Live() or its __enter__, or while the
\* ZeroDivisionError is on its way out.
DashSignal(built) ==
    /\ UNCHANGED <<webVars, buildVars, loopVars>>
    /\ dashPc \in {"ready", "test", "update", "sleep", "keys"}
    /\ built => dashPc = "ready"
    /\ running' = FALSE
    /\ dashStop' = "signal"
    /\ layouts' = IF built THEN layouts + 1 ELSE layouts
    /\ DashLeave("SystemExit")
    /\ UNCHANGED <<update_interval, start_time, clock>>

\* The same handler, interrupting code that sits under a bare "except:" (the
\* cpu_freq() query of create_layout, the key check): SystemExit is swallowed
\* there and the code goes on with running = False.  create_layout() is called
\* before the loop as the argument of Live (run() then goes on with the run-up,
\* which ends with outcome) and in each iteration; the try of the key check
\* covers reset_stats(), so the signal may arrive after start_time was assigned.
DashSignalSwallowed(reset, outcome) ==
    /\ UNCHANGED <<webVars, buildVars, loopVars>>
    /\ dashPc \in {"ready", "update", "keys"}
    /\ reset => dashPc = "keys"
    /\ outcome # "entered" => dashPc = "ready"
    /\ running' = FALSE
    /\ dashStop' = "signal"
    /\ start_time' = IF reset THEN reset_stats(clock) ELSE start_time
    /\ IF dashPc = "ready"
       THEN RunUp(outcome)
       ELSE /\ dashPc' = IF dashPc = "keys" THEN "test" ELSE dashPc
            /\ UNCHANGED <<dashExit, dashLeftAt, layouts>>
    /\ UNCHANGED <<update_interval, clock>>

\* ============================================================ the event loop
\* uvicorn.run(app) runs every handler on one event loop thread.  The handlers
\* are coroutines ("async def"): the thread runs one of them until it awaits or
\* returns, and resumes another only then.
RestCallers == (NumConns + 1)..(NumConns + NumRest)

\* The websocket observers and the REST callers of the server.
Tasks == Conns \cup RestCallers

\* The keys of the dict displays of get_all_metrics() and collect_inventory(), in
\* the order their values are evaluated.
MetricOrder == <<"cpu", "memory", "disks", "network", "gpu">>
InventoryOrder == <<"timestamp", "system", "cpu", "memory", "disks", "network", "gpu">>
BuildOrder(endpoint) == IF endpoint = "/api/inventory" THEN InventoryOrder ELSE MetricOrder

NoSnapshot == [endpoint |-> "none", by |-> None, dict |-> <<>>, interleaved |-> FALSE]

\* The frame of a handler: where it is, the dict display it is evaluating (the
\* values read so far, each with the coroutine that ran its collector), and,
\* as history, whether another build began while this one was under way.
Frame(pc, endpoint) ==
    [pc |-> pc, endpoint |-> endpoint, n |-> 0, dict |-> <<>>, interleaved |-> FALSE]

\* No request has arrived; every /ws handler is suspended in accept().
LoopInit ==
    /\ loop = None
    /\ co = [c \in Tasks |-> IF c \in Conns THEN Frame("accepting", "/ws")
                                              ELSE Frame("idle", "none")]
    /\ observed = [c \in Tasks |-> NoSnapshot]

Building == {c \in Tasks : co[c].pc = "building"}

\* The value the dict display of frame f has built.
Built(c, f) ==
    [endpoint |-> f.endpoint, by |-> c, dict |-> f.dict, interleaved |-> f.interleaved]

\* Coroutine c calls get_all_metrics() or collect_inventory(): the thread starts
\* on the dict display in a frame of that call.
StartBuild(c, endpoint) ==
    /\ loop' = c
    /\ co' = [o \in Tasks |->
                IF o = c
                THEN [co[c] EXCEPT !.pc = "building", !.endpoint = endpoint, !.n = @ + 1,
                                   !.dict = <<>>, !.interleaved = (Building \ {c} # {})]
                ELSE IF o \in Building THEN [co[o] EXCEPT !.interleaved = TRUE]
                ELSE co[o]]
    /\ UNCHANGED observed

\* websocket_endpoint: manager.connect() returned; the loop starts with a build.
WsEnter(c) ==
    /\ UNCHANGED <<webVars, buildVars, dashVars>>
    /\ c \in Conns
    /\ loop = None
    /\ co[c].pc = "accepting"
    /\ StartBuild(c, "/ws")

\* websocket_endpoint: asyncio.sleep(1) returned; the next build starts.
WsNextTick(c) ==
    /\ UNCHANGED <<webVars, buildVars, dashVars>>
    /\ c \in Conns
    /\ loop = None
    /\ co[c].pc = "sleeping"
    /\ co[c].n < MaxTicks
    /\ StartBuild(c, "/ws")

\* A request arrives: get_metrics() or get_inventory() is started and calls its
\* builder.
RestCall(r, endpoint) ==
    /\ UNCHANGED <<webVars, buildVars, dashVars>>
    /\ r \in RestCallers
    /\ loop = None
    /\ co[r].pc = "idle"
    /\ StartBuild(r, endpoint)

AfterCollectorYield(c) == None

\* The builders and their collectors are plain functions without an await:
\* when a collector has returned, the thread goes on in the same coroutine.
AfterCollector(c) == c

\* The thread evaluates the next value of the dict display of c.  After the last
\* one the builder returns: the /ws handler goes on to "await
\* websocket.send_json(metrics)", and a REST handler returns its JSONResponse,
\* which is what its caller is sent.
Collect(c) ==
    /\ UNCHANGED <<webVars, buildVars, dashVars>>
    /\ co[c].pc = "building"
    /\ loop \in {c, None}
    /\ LET order == BuildOrder(co[c].endpoint)
           f == [co[c] EXCEPT !.dict = Append(@, [key |-> order[Len(@) + 1],
                                                      by |-> IF loop = None THEN c ELSE loop])]
       IN IF Len(f.dict) < Len(order)
          THEN /\ co' = [co EXCEPT ![c] = f]
               /\ loop' = AfterCollector(c)
               /\ UNCHANGED observed
          ELSE /\ loop' = None
               /\ IF c \in Conns
                  THEN /\ co' = [co EXCEPT ![c] = [f EXCEPT !.pc = "sending"]]
                       /\ UNCHANGED observed
                  ELSE /\ co' = [co EXCEPT ![c] = [f EXCEPT !.pc = "done", !.dict = <<>>]]
                       /\ observed' = [observed EXCEPT ![c] = Built(c, f)]

\* websocket_endpoint: send_json(metrics) returned; the handler sleeps.
WsSent(c) ==
    /\ UNCHANGED <<webVars, buildVars, dashVars>>
    /\ c \in Conns
    /\ loop = None
    /\ co[c].pc = "sending"
    /\ observed' = [observed EXCEPT ![c] = Built(c, co[c])]
    /\ co' = [co EXCEPT ![c].pc = "sleeping", ![c].dict = <<>>]
    /\ UNCHANGED loop

\* websocket_endpoint ends at one of its awaits: accept() or send_json() raised,
\* or the task was cancelled.
WsEnd(c) ==
    /\ UNCHANGED <<webVars, buildVars, dashVars>>
    /\ c \in Conns
    /\ loop = None
    /\ co[c].pc \in {"accepting", "sending", "sleeping"}
    /\ co' = [co EXCEPT ![c].pc = "closed", ![c].dict = <<>>]
    /\ UNCHANGED <<loop, observed>>

\* ============================================================ specifications
Init == WebInit /\ BuildIdle /\ DashIdle /\ LoopInit

\* The server as uvicorn runs it: the /ws handlers and the REST handlers, each
\* step being the run of one coroutine on the event loop thread.
Next ==
    \/ \E c \in Conns : WsEnter(c)
    \/ \E c \in Conns : WsNextTick(c)
    \/ \E r \in RestCallers, endpoint \in {"/api/metrics", "/api/inventory"} :
          RestCall(r, endpoint)
    \/ \E c \in Tasks : Collect(c)
    \/ \E c \in Conns : WsSent(c)
    \/ \E c \in Conns : WsEnd(c)

Spec == Init /\ [][Next]_vars

\* The hub: the /ws handlers and callers of broadcast().  The synchronous code
\* between two awaits of a handler, its build included, is one step here.
NextHub ==
    \/ \E c \in Conns : WsAcceptFail(c)
    \/ \E c \in Conns : WsAccepted(c)
    \/ \E c \in Conns : WsSendOk(c)
    \/ \E c \in Conns, kind \in {"disconnect", "error"} : WsSendFail(c, kind)
    \/ \E c \in Conns : WsWake(c)
    \/ \E c \in Conns : WsCancel(c)
    \/ BroadcastCall
    \/ BroadcastSendOk
    \/ BroadcastSendFail
    \/ BroadcastCancel

HubSpec == Init /\ [][NextHub]_vars

\* The snapshot builders, on every probe environment.
InitBuild == WebInit /\ BuildInit /\ DashIdle /\ LoopInit

SaveOutcomes == {"ok", "mkdir_error", "open_error", "write_error"}

NextBuild ==
    \/ GetMetrics
    \/ CollectInventory
    \/ \E output \in {NoOutput, GivenPath, NewDirPath}, outcome \in SaveOutcomes :
          SaveInventory(output, outcome)

BuildSpec == InitBuild /\ [][NextBuild]_vars

\* The terminal dashboard.
InitDash == WebInit /\ BuildIdle /\ DashInit /\ LoopInit

NextDash ==
    \/ DashRunEnter
    \/ \E outcome \in RunUpOutcomes : DashRunEnterError(outcome)
    \/ DashLoopTest
    \/ DashUpdate
    \/ DashTickError
    \/ DashLiveUpdateError
    \/ DashSleepError
    \/ DashSleep
    \/ \E key \in Keys : DashKey(key)
    \/ \E built \in BOOLEAN : DashSignal(built)
    \/ \E reset \in BOOLEAN, outcome \in RunUpOutcomes : DashSignalSwallowed(reset, outcome)

DashSpec == InitDash /\ [][NextDash]_vars

\* Fairness of the event loop: a coroutine suspended in a send is resumed once
\* the send completes or fails, and a send on a closed websocket fails at once.
\* The send to a connected but blocked client (SlowConns) may stay pending for
\* ever, so no fairness is stated for it.
SlowConns == {1}

BroadcastComplete == BroadcastSendOk \/ BroadcastSendFail

Blocked ==
    /\ bc.pc = "sending"
    /\ bc.cur \in SlowConns
    /\ wsPc[bc.cur] \in {"sending", "sleeping"}

FairSpec == HubSpec /\ WF_vars(bc.pc = "sending" /\ ~Blocked /\ BroadcastComplete)

\* ------------------------------------------------------------------ claims
Open(c) == wsPc[c] \in {"sending", "sleeping"}

Registered(c) == c \in Range(active_connections)

Position(c) == CHOOSE i \in 1..Len(active_connections) : active_connections[i] = c

\* C1: a broadcast call that has ended without being cancelled raised nothing,
\* every connection whose send raised is out of active_connections, no connection
\* is both delivered to and failed, and, when nothing else changed the list
\* meanwhile, every connection registered at the call was either sent the data
\* or failed: one failing send does not end the delivery to the others.
BroadcastIsolatesFailure ==
    (bc.pc = "done" /\ ~bc.cancelled) =>
        /\ ~bc.raised
        /\ \A c \in Range(bc.disconnected) : ~Registered(c)
        /\ Range(bc.sent) \cap Range(bc.disconnected) = {}
        /\ ~bc.mutated =>
              Range(bc.atCall) = Range(bc.sent) \cup Range(bc.disconnected)

\* The first connection's send raised and the second one was still delivered to.
BroadcastIsolatesFailureWitness ==
    /\ bc.pc = "done"
    /\ ~bc.mutated
    /\ Len(bc.atCall) >= 2
    /\ bc.atCall[1] \in Range(bc.disconnected)
    /\ bc.atCall[2] \in Range(bc.sent)

\* C2: when a broadcast call has returned, every connection that was registered
\* at the call and is still registered was sent the data exactly once.
BroadcastConsistentView ==
    bc.pc = "done" =>
        \A c \in Range(bc.atCall) : Registered(c) => Count(bc.sent, c) = 1

\* C3: a connection whose handler has ended is not in active_connections.
NoDanglingRegistration ==
    \A c \in Conns : wsPc[c] = "closed" => ~Registered(c)

Without(l, x) == SelectSeq(l, LAMBDA y : y # x)

\* C4: on every list the hub reaches, disconnect(ws) raises nothing, leaves the
\* list as it is when ws is not in it, removes ws alone and keeps the others in
\* place, and a second call for the same ws changes nothing more; no handler and
\* no broadcast was ever left by an exception of disconnect (a broadcast is
\* left by an exception only when it is cancelled).
DisconnectIdempotent ==
    /\ \A ws \in Conns :
          LET once == disconnect(active_connections, ws)
              twice == disconnect(once.list, ws)
          IN /\ ~once.raised /\ ~twice.raised
             /\ ~Registered(ws) => once.list = active_connections
             /\ once.list = Without(active_connections, ws)
             /\ twice.list = once.list
    /\ \A c \in Conns : wsEnd[c] # "crash"
    /\ bc.raised => bc.cancelled

\* disconnect was called twice for one websocket (by its handler and by the
\* removal loop of a broadcast) while another connection stayed registered.
DisconnectIdempotentWitness ==
    /\ bc.pc = "done"
    /\ \E c \in Range(bc.disconnected) :
          /\ wsEnd[c] \in {"disconnect", "error"}
          /\ \E o \in Conns \ {c} : Registered(o)

\* C5 as stated: once a handler's tick has delivered its snapshot, every observer
\* that registered before that handler did and is still connected has been sent
\* that snapshot.
SnapshotFannedOut ==
    \A c \in Conns, o \in Conns :
        ( /\ c # o
          /\ wsPc[c] = "sleeping"
          /\ Open(o) /\ Registered(o) /\ Registered(c)
          /\ Position(o) < Position(c) )
        => \E i \in 1..Len(received[o]) : received[o][i] = wsCur[c]

\* C5 amended: a snapshot built by a handler's loop is sent on that handler's own
\* websocket and on no other: every snapshot a client was sent was built by its
\* own loop, and a completed tick has sent its snapshot to its own client.
SnapshotSentToOwnClientOnly ==
    \A o \in Conns :
        /\ \A i \in 1..Len(received[o]) : received[o][i].by = o
        /\ wsPc[o] = "sleeping" =>
              \E i \in 1..Len(received[o]) : received[o][i] = wsCur[o]

\* Two clients are connected and each has completed a tick.
SnapshotSentToOwnClientOnlyWitness ==
    \E c \in Conns, o \in Conns :
        /\ c # o
        /\ wsPc[c] = "sleeping" /\ wsPc[o] = "sleeping"
        /\ Registered(c) /\ Registered(o)

\* C6: while the send to a connected but blocked client is pending inside a
\* broadcast, each other connection that was registered at the call, is open and
\* has not been served yet is eventually sent the data (or its send fails, it
\* leaves, or the broadcast returns).
SlowObserverDoesNotStall ==
    \A o \in Conns \ SlowConns :
        ( /\ Blocked
          /\ o \in Range(bc.atCall) /\ Registered(o) /\ Open(o)
          /\ o \notin Range(bc.sent) \cup Range(bc.disconnected) )
        ~> ( \/ o \in Range(bc.sent) \cup Range(bc.disconnected)
             \/ ~Registered(o) \/ ~Open(o)
             \/ bc.pc = "done" )

\* C7: the snapshots sent to one observer are in the order they were built: of two
\* snapshots of the same loop, the one sent first has the smaller build number.
SnapshotsInOrder ==
    \A o \in Conns :
        \A i \in 1..Len(received[o]), j \in 1..Len(received[o]) :
            (i < j /\ received[o][i].by = received[o][j].by)
            => received[o][i].id < received[o][j].id

\* An observer has been sent two snapshots.
SnapshotsInOrderWitness ==
    \E o \in Conns : Len(received[o]) >= 2

\* C9 (websocket loop): a handler whose tick raised an unexpected error, which it
\* logged, is still in its loop.
LoopSurvivesTickError ==
    \A c \in Conns : wsEnd[c] = "error" => wsPc[c] # "closed"

\* The GPUs get_gpu_data goes through, and whether a GPU query raises on the way.
GpuListing(e) == get_gpu_info(e.gpu)

GpuQueryRaises(e) ==
    \/ GpuListing(e).raised
    \/ \E k \in 1..Len(GpuListing(e).value.gpus) :
          get_gpu_metrics(e.gpu, GpuListing(e).value.gpus[k].index).raised

\* C8: get_all_metrics and collect_inventory raise nothing and return all their
\* domains; a domain whose probe raises holds its default (zeroed cpu and memory
\* records, empty disks, network and gpu sequences) and a domain whose probes work
\* holds its reading.
BuildersNeverFail ==
    /\ buildPc \in {"metrics", "done"} =>
          /\ ~metrics.raised
          /\ DOMAIN metrics.value = {"cpu", "memory", "disks", "network", "gpu"}
          /\ metrics.value.cpu = IF env.cpu = "raise" THEN ZeroCpu ELSE CpuReading(env)
          /\ metrics.value.memory = IF env.mem = "raise" THEN ZeroMemory ELSE MemoryReading
          /\ env.disk.raised => metrics.value.disks = <<>>
          /\ ~env.disk.raised =>
                Len(metrics.value.disks) = Count(Take(env.disk.parts, PartitionLimit), "ok")
          /\ env.net.raised => metrics.value.network = <<>>
          /\ ~env.net.raised =>
                Len(metrics.value.network) =
                    Len(SelectSeq(Take(env.net.ifs, InterfaceLimit), LAMBDA x : x # "lo"))
          /\ GpuQueryRaises(env) => metrics.value.gpu = <<>>
          /\ ~GpuQueryRaises(env) =>
                Len(metrics.value.gpu) = Len(GpuListing(env).value.gpus)
    /\ buildPc = "done" =>
          /\ ~inventory.raised
          /\ DOMAIN inventory.value =
                {"timestamp", "system", "cpu", "memory", "disks", "network", "gpu"}
          /\ inventory.value.cpu = IF env.cpu = "raise" THEN UnknownCpu ELSE CpuInfo(env)
          /\ inventory.value.memory =
                IF env.mem = "raise" THEN ZeroMemoryInfo ELSE MemoryInfo
          /\ env.disk.raised => inventory.value.disks = <<>>
          /\ ~env.disk.raised => Len(inventory.value.disks) = Count(env.disk.parts, "ok")
          /\ env.net.raised => inventory.value.network = <<>>
          /\ GpuListing(env).raised => inventory.value.gpu = NoGpuDict
          /\ ~GpuListing(env).raised =>
                inventory.value.gpu.gpus # <<>> \/ GpuListing(env).value.gpus = <<>>

\* C10: a stop request made while run() executes ends the loop at an iteration
\* boundary (the loop test, or the key check that ends an iteration) and run()
\* returns; no exception leaves it.
DashStopsAtBoundary ==
    (dashPc = "exited" /\ dashStop # "none" /\ dashLeftAt # "ready" /\ dashExit # "error")
    => (dashExit = "return" /\ dashLeftAt \in {"test", "keys"})

\* C11: an iteration of a live loop builds one snapshot, delivers it and then
\* sleeps: a /ws handler that sleeps after its n-th build has sent n snapshots
\* (at least one), one that is sending its n-th has sent n - 1, and the dashboard
\* has drawn a layout for every iteration before it sleeps.
TickDeliversBeforeSleep ==
    /\ \A c \in Conns :
          /\ wsPc[c] = "sleeping" =>
                /\ wsTicks[c] >= 1
                /\ Len(received[c]) = wsTicks[c]
                /\ received[c][wsTicks[c]] = wsCur[c]
          /\ wsPc[c] = "sending" => Len(received[c]) = wsTicks[c] - 1
    /\ dashPc = "sleep" => layouts = clock + 2

\* A registered client is in its first sleep and has been sent its first snapshot.
TickDeliversBeforeSleepWitness ==
    \E c \in Conns :
        /\ wsPc[c] = "sleeping" /\ Registered(c)
        /\ wsTicks[c] = 1
        /\ received[c] = <<Snapshot(1, c)>>

\* C12: when the loop was stopped before its first tick (a stop request was
\* made, with a valid interval, and run() was left from its run-up or from the
\* first test of "while self.running", no iteration having run), run() has built
\* no layout, drawn nothing and returned normally.
StoppedBeforeFirstTickBuildsNothing ==
    (/\ dashPc = "exited"
     /\ dashStop # "none"
     /\ dashLeftAt = "test"
     /\ clock = 0
     /\ update_interval > 0)
    => (layouts = 0 /\ dashExit = "return")

\* The value s is whole and from one build: it has every key of its builder, in
\* order, each read in the coroutine that built it, and no other build began
\* between its first and its last read.
FromOneBuild(s) ==
    /\ [i \in DOMAIN s.dict |-> s.dict[i].key] = BuildOrder(s.endpoint)
    /\ \A i \in DOMAIN s.dict : s.dict[i].by = s.by
    /\ ~s.interleaved

\* C13: with websocket clients and REST callers active at once, at most one
\* build is under way at any time and no build begins before the one under way
\* has completed; every snapshot an observer was sent, and every snapshot a /ws
\* handler holds while it is suspended in its send, is whole and from one build.
SnapshotFromOneBuild ==
    /\ Cardinality(Building) <= 1
    /\ \A c \in Building : ~co[c].interleaved
    /\ \A c \in Tasks : observed[c] # NoSnapshot => (observed[c].by = c /\ FromOneBuild(observed[c]))
    /\ \A c \in Conns : co[c].pc = "sending" => FromOneBuild(Built(c, co[c]))

\* A REST caller has its metrics and another its inventory, while one /ws
\* handler is in its second build and another, which has sent a snapshot, is
\* suspended in its second send.
SnapshotFromOneBuildWitness ==
    \E c \in Conns, o \in Conns, r \in RestCallers, q \in RestCallers :
        /\ c # o
        /\ co[c].pc = "building" /\ co[c].n = 2 /\ Len(co[c].dict) = 2
        /\ co[o].pc = "sending" /\ observed[o] # NoSnapshot
        /\ observed[r].endpoint = "/api/metrics"
        /\ observed[q].endpoint = "/api/inventory"

\* What the pynvml queries answer when they succeed.
PynvmlInfo(g) ==
    [driver_version |-> IF g.n > 0 THEN "535" ELSE "None",
     cuda_version |-> IF g.n > 0 THEN "12.2" ELSE "None",
     gpus |-> GpuList(g.n, "pynvml")]

PynvmlMetricsOk(g, index) == g.pynvml = "ok" /\ index < g.n /\ index \notin g.bad

\* C14 as stated: whenever pynvml is available and its device query succeeds,
\* get_gpu_info returns from the pynvml branch, without going to nvidia-smi.
GpuPrimaryWheneverItSucceeds ==
    (buildPc # "start" /\ env.gpu.pynvml = "ok") => GpuInfoPath(env.gpu) = "pynvml"

\* C14 amended: get_gpu_info returns the pynvml list when pynvml is available and
\* its query succeeds with at least one GPU, and otherwise (pynvml absent, raising
\* or reporting no GPU) whatever get_gpu_info_nvidia_smi gives; get_gpu_metrics
\* returns the pynvml record when pynvml is available and its query for that index
\* succeeds, and otherwise whatever get_gpu_metrics_nvidia_smi gives.
GpuPrimaryThenFallback ==
    buildPc # "start" =>
        LET g == env.gpu
        IN /\ (g.pynvml = "ok" /\ g.n > 0) =>
                 /\ get_gpu_info(g) = Ok(PynvmlInfo(g))
                 /\ GpuInfoPath(g) = "pynvml"
           /\ ~(g.pynvml = "ok" /\ g.n > 0) =>
                 /\ get_gpu_info(g) = get_gpu_info_nvidia_smi(g)
                 /\ GpuInfoPath(g) = "nvidia-smi"
           /\ \A index \in 0..MaxGpus :
                 /\ PynvmlMetricsOk(g, index) =>
                       /\ get_gpu_metrics(g, index).found
                       /\ ~get_gpu_metrics(g, index).raised
                 /\ ~PynvmlMetricsOk(g, index) =>
                       get_gpu_metrics(g, index) = get_gpu_metrics_nvidia_smi(g, index)

\* A build on a machine where pynvml lists GPUs, its metrics query fails for one
\* of them and nvidia-smi works: both paths were taken.
GpuPrimaryThenFallbackWitness ==
    /\ buildPc = "done"
    /\ env.gpu.pynvml = "ok" /\ env.gpu.smi = "ok"
    /\ env.gpu.n = 2 /\ env.gpu.bad = {1}
    /\ Len(metrics.value.gpu) = 2

MetricKeys == {"utilization", "temperature", "memory_used", "memory_total",
               "memory_percent", "power"}

\* C15: for a GPU that the path in use can query, get_gpu_metrics gives a record
\* with exactly the six keys, in which a reading the GPU lacks (temperature,
\* power) is None and every other field is a number, whether pynvml or
\* nvidia-smi produced it.
GpuMetricsSameShape ==
    buildPc # "start" =>
        \A index \in 0..(env.gpu.n - 1) :
            LET g == env.gpu
                m == get_gpu_metrics(g, index)
            IN (PynvmlMetricsOk(g, index) \/ g.smi = "ok") =>
                  /\ ~m.raised /\ m.found
                  /\ DOMAIN m.value = MetricKeys
                  /\ \A k \in MetricKeys : (m.value[k] = None) <=> (k \in g.missing)

\* C16: when nvidia-smi invocations time out (the availability check, or the
\* queries after it), check_nvidia_smi gives False for its own timeout,
\* get_gpu_info_nvidia_smi gives (None, None, []), get_gpu_metrics_nvidia_smi
\* gives None, and nothing is raised by them, by get_gpu_info, by get_gpu_metrics
\* or by the builders.
SmiTimeoutGivesUnavailable ==
    (buildPc # "start" /\ env.gpu.smi \in {"timeout", "hangs"}) =>
        LET g == env.gpu
        IN /\ g.smi = "timeout" => check_nvidia_smi(g) = Ok(FALSE)
           /\ ~check_nvidia_smi(g).raised
           /\ get_gpu_info_nvidia_smi(g) = Ok(NoGpus)
           /\ ~get_gpu_info(g).raised
           /\ \A index \in 0..MaxGpus :
                 /\ get_gpu_metrics_nvidia_smi(g, index) = NoMetrics
                 /\ ~get_gpu_metrics(g, index).raised
           /\ ~metrics.raised
           /\ buildPc = "done" => ~inventory.raised

\* Both builders ran on a machine with two GPUs where pynvml fails and the
\* nvidia-smi check times out: the gpu domains are empty.
SmiTimeoutGivesUnavailableWitness ==
    /\ buildPc = "done"
    /\ env.gpu.smi = "timeout" /\ env.gpu.pynvml = "fail" /\ env.gpu.n = 2
    /\ metrics.value.gpu = <<>>
    /\ inventory.value.gpu = NoGpuDict

\* Neither probe can reach a GPU.
NoGpuAvailable(g) ==
    /\ g.pynvml \in {"absent", "fail"}
    /\ g.smi \in {"absent", "timeout", "hangs", "oserror", "fails"}

\* C17: in every inventory gpu_count is the length of gpus; and when no GPU is
\* available the gpu sequence of the metrics is empty, the inventory has no gpus
\* and gpu_count 0, and the dashboard panel and the inventory summary show
\* "No NVIDIA GPUs detected".
NoGpuShownAsNone ==
    buildPc = "done" =>
        /\ inventory.value.gpu.gpu_count = Len(inventory.value.gpu.gpus)
        /\ NoGpuAvailable(env.gpu) =>
              /\ metrics.value.gpu = <<>>
              /\ inventory.value.gpu.gpus = <<>>
              /\ inventory.value.gpu.gpu_count = 0
              /\ GpuPanel(env.gpu) = [text |-> "No NVIDIA GPUs detected", rows |-> <<>>]
              /\ InventoryGpuSummary(inventory.value) = "No NVIDIA GPUs detected"

\* Both builders ran on a machine whose two GPUs no probe can reach: pynvml is
\* absent and running nvidia-smi raises.
NoGpuShownAsNoneWitness ==
    /\ buildPc = "done"
    /\ env.gpu.pynvml = "absent" /\ env.gpu.smi = "oserror" /\ env.gpu.n = 2
    /\ inventory.value.gpu.gpu_count = 0

\* C18: no network sequence the program produced (get_network_data,
\* get_network_info, the rows of the dashboard's network table) has an entry
\* for a loopback interface.
LoopbackNeverListed ==
    buildPc = "done" =>
        /\ \A i \in 1..Len(metrics.value.network) :
              ~IsLoopback(metrics.value.network[i].name)
        /\ \A i \in 1..Len(inventory.value.network) :
              ~IsLoopback(inventory.value.network[i].name)
        /\ \A i \in 1..Len(get_network_table(env)) :
              ~IsLoopback(get_network_table(env)[i])

\* The partitions of parts whose usage query succeeds, as indexes.
Readable(parts) == {k \in 1..Len(parts) : parts[k] = "ok"}

\* C19: when the partition list can be read, each disks sequence has exactly one
\* entry per partition whose usage query succeeded (among those the producer goes
\* through), with that partition's reading, in partition order, and nothing for
\* a partition whose query was denied or failed.
DeniedPartitionsOmitted ==
    (buildPc = "done" /\ ~env.disk.raised) =>
        LET live == metrics.value.disks
            inv == inventory.value.disks
            seen == Take(env.disk.parts, PartitionLimit)
        IN /\ {live[i].device : i \in 1..Len(live)} = Readable(seen)
           /\ \A i \in 1..Len(live) : live[i] = DiskEntry(live[i].device)
           /\ \A i \in 1..Len(live), j \in 1..Len(live) :
                 i < j => live[i].device < live[j].device
           /\ {inv[i].device : i \in 1..Len(inv)} = Readable(env.disk.parts)
           /\ \A i \in 1..Len(inv) : inv[i] = DiskInfoEntry(inv[i].device)
           /\ \A i \in 1..Len(inv), j \in 1..Len(inv) :
                 i < j => inv[i].device < inv[j].device

\* Both builders ran on a machine whose second of three partitions is denied:
\* the first and the third are listed.
DeniedPartitionsOmittedWitness ==
    /\ buildPc = "done"
    /\ ~env.disk.raised /\ env.disk.parts = <<"ok", "denied", "ok">>
    /\ Len(metrics.value.disks) = 2
    /\ metrics.value.disks[2].device = 3

\* C20 as stated: the dict of get_all_metrics and the dict of collect_inventory
\* both have a timestamp key next to cpu, memory, disks, network and gpu.
EverySnapshotHasTimestamp ==
    /\ buildPc \in {"metrics", "done"} =>
          MetricDomains \cup {"timestamp"} \subseteq DOMAIN metrics.value
    /\ buildPc = "done" =>
          MetricDomains \cup {"timestamp"} \subseteq DOMAIN inventory.value

\* C20 amended: the dict of collect_inventory has timestamp (the time of the
\* call), system and the five domains; the dict of get_all_metrics has the five
\* domains and nothing else, so no timestamp.
OnlyInventoryHasTimestamp ==
    /\ buildPc \in {"metrics", "done"} => DOMAIN metrics.value = MetricDomains
    /\ buildPc = "done" =>
          /\ DOMAIN inventory.value = MetricDomains \cup {"timestamp", "system"}
          /\ inventory.value.timestamp = env.now

\* Both builders ran on the ordinary machine.
OnlyInventoryHasTimestampWitness ==
    /\ buildPc = "done"
    /\ env = PlainEnv
    /\ inventory.value.timestamp = PlainEnv.now
    /\ metrics.value.cpu = CpuReading(PlainEnv)

\* ================================================================ JSON
\* Python values as json sees them: a tag and a payload.
PyNone == [t |-> "None"]
PyInt(n) == [t |-> "int", v |-> n]
PyFloat(x) == [t |-> "float", v |-> x]
PyStr(x) == [t |-> "str", v |-> x]
PyBool(b) == [t |-> "bool", v |-> b]
PyList(l) == [t |-> "list", v |-> l]
PyDict(d) == [t |-> "dict", v |-> d]
\* The integer a member of socket.AddressFamily, an IntEnum, is (on Linux).
AddressFamilyValue(name) ==
    CASE name = "AF_UNIX" -> 1
      [] name = "AF_INET" -> 2
      [] name = "AF_INET6" -> 10
      [] name = "AF_PACKET" -> 17

\* A member of socket.AddressFamily: an int of its own type.
PyEnum(x) == [t |-> "enum", v |-> AddressFamilyValue(x)]

\* json.dumps(): None -> null, int and float -> a number (a float keeps its
\* fraction part in the text), str -> string, bool -> true/false, list -> array,
\* dict -> object; a member of an IntEnum is an int and is written as its
\* number; any other object raises TypeError, which ends the whole dump.
RECURSIVE json_dumps(_)
json_dumps(x) ==
    CASE x.t = "None" -> [t |-> "null"]
      [] x.t = "int" -> [t |-> "number", v |-> x.v, fraction |-> FALSE]
      [] x.t = "float" -> [t |-> "number", v |-> x.v, fraction |-> TRUE]
      [] x.t = "enum" -> [t |-> "number", v |-> x.v, fraction |-> FALSE]
      [] x.t = "str" -> [t |-> "string", v |-> x.v]
      [] x.t = "bool" -> [t |-> IF x.v THEN "true" ELSE "false"]
      [] x.t = "list" ->
            LET items == [i \in DOMAIN x.v |-> json_dumps(x.v[i])]
            IN IF \E i \in DOMAIN items : items[i].t = "TypeError"
               THEN [t |-> "TypeError"]
               ELSE [t |-> "array", v |-> items]
      [] x.t = "dict" ->
            LET items == [k \in DOMAIN x.v |-> json_dumps(x.v[k])]
            IN IF \E k \in DOMAIN items : items[k].t = "TypeError"
               THEN [t |-> "TypeError"]
               ELSE [t |-> "object", v |-> items]
      [] OTHER -> [t |-> "TypeError"]

\* Reading a saved file back with Python's json.loads(): a number without
\* fraction part is an int, one with it a float; an array is a list and an
\* object a dict.
RECURSIVE json_loads(_)
json_loads(j) ==
    CASE j.t = "null" -> PyNone
      [] j.t = "number" -> IF j.fraction THEN PyFloat(j.v) ELSE PyInt(j.v)
      [] j.t = "string" -> PyStr(j.v)
      [] j.t = "true" -> PyBool(TRUE)
      [] j.t = "false" -> PyBool(FALSE)
      [] j.t = "array" -> PyList([i \in DOMAIN j.v |-> json_loads(j.v[i])])
      [] j.t = "object" -> PyDict([k \in DOMAIN j.v |-> json_loads(j.v[k])])
      [] OTHER -> [t |-> "TypeError"]

\* The page's readers, JSON.parse(event.data) and response.json(): JavaScript
\* has one number type, so the text 50.0 and the text 50 give the same number.
RECURSIVE JSON_parse(_)
JSON_parse(j) ==
    CASE j.t = "null" -> [t |-> "null"]
      [] j.t = "number" -> [t |-> "Number", v |-> j.v]
      [] j.t = "string" -> [t |-> "String", v |-> j.v]
      [] j.t = "true" -> [t |-> "Boolean", v |-> TRUE]
      [] j.t = "false" -> [t |-> "Boolean", v |-> FALSE]
      [] j.t = "array" -> [t |-> "Array", v |-> [i \in DOMAIN j.v |-> JSON_parse(j.v[i])]]
      [] j.t = "object" -> [t |-> "Object", v |-> [k \in DOMAIN j.v |-> JSON_parse(j.v[k])]]
      [] OTHER -> [t |-> "SyntaxError"]

\* The JavaScript value js equals the Python value x field for field: the same
\* keys and the same length everywhere, and under each the same number, string
\* or truth value, or null for None.
RECURSIVE FieldForField(_, _)
FieldForField(x, js) ==
    CASE x.t = "None" -> js.t = "null"
      [] x.t \in {"int", "float"} -> js.t = "Number" /\ js.v = x.v
      [] x.t = "str" -> js.t = "String" /\ js.v = x.v
      [] x.t = "bool" -> js.t = "Boolean" /\ js.v = x.v
      [] x.t = "list" ->
            /\ js.t = "Array"
            /\ DOMAIN js.v = DOMAIN x.v
            /\ \A i \in DOMAIN x.v : FieldForField(x.v[i], js.v[i])
      [] x.t = "dict" ->
            /\ js.t = "Object"
            /\ DOMAIN js.v = DOMAIN x.v
            /\ \A k \in DOMAIN x.v : FieldForField(x.v[k], js.v[k])
      [] OTHER -> FALSE

\* The Python type of each scalar field of the inventory.
FloatFields == {"usage_percent", "swap_percent", "base_frequency_mhz",
                "min_frequency_mhz", "max_frequency_mhz"}
StrFields == {"model", "architecture", "hostname", "os", "device", "mountpoint",
              "fstype", "name", "driver_version", "cuda_version", "timestamp"}

\* The string fields that may hold None.
OptionalStrFields == {"driver_version", "cuda_version"}

PyScalar(k, x) ==
    IF k \in OptionalStrFields THEN (IF x = "None" THEN PyNone ELSE PyStr(x))
    ELSE IF k \in StrFields THEN PyStr(x)
    ELSE IF x = None THEN PyNone
    ELSE IF k \in FloatFields THEN PyFloat(x) ELSE PyInt(x)

\* A dict whose values are all scalars.
PyFlat(r) == PyDict([k \in DOMAIN r |-> PyScalar(k, r[k])])

PyAddressRawFamily(a) == PyDict([family |-> PyEnum(a.family), address |-> PyStr(a.address)])

\* addr_info: "family" is str(addr.family), "address" the address string.
PyAddress(a) == PyDict([family |-> PyStr(a.family), address |-> PyStr(a.address)])

PyInterface(n) ==
    PyDict([name |-> PyStr(n.name),
            addresses |-> PyList([i \in DOMAIN n.addresses |-> PyAddress(n.addresses[i])]),
            is_up |-> PyBool(n.is_up),
            speed_mbps |-> PyScalar("speed_mbps", n.speed_mbps)])

PyGpuSection(g) ==
    PyDict([driver_version |-> PyScalar("driver_version", g.driver_version),
            cuda_version |-> PyScalar("cuda_version", g.cuda_version),
            gpus |-> PyList([i \in DOMAIN g.gpus |-> PyFlat(g.gpus[i])]),
            gpu_count |-> PyInt(g.gpu_count)])

\* The dict collect_inventory() returns, with the Python type of every value.
PyInventory(inv) ==
    PyDict([timestamp |-> PyStr(inv.timestamp),
            system |-> PyFlat(inv.system),
            cpu |-> PyFlat(inv.cpu),
            memory |-> PyFlat(inv.memory),
            disks |-> PyList([i \in DOMAIN inv.disks |-> PyFlat(inv.disks[i])]),
            network |-> PyList([i \in DOMAIN inv.network |-> PyInterface(inv.network[i])]),
            gpu |-> PyGpuSection(inv.gpu)])

\* The Python type of each value of the dict get_all_metrics() returns: it is the
\* type of the value the branch taken put there.
\* get_cpu_data(): psutil gives floats; the dict of the except clause holds the
\* literal 0, an int, and an empty list.
PyCpuData(e, r) ==
    PyDict([per_core |-> PyList([i \in DOMAIN r.per_core |-> PyFloat(r.per_core[i])]),
            overall |-> IF e.cpu = "raise" THEN PyInt(r.overall) ELSE PyFloat(r.overall),
            frequency_mhz |-> IF r.frequency_mhz = None THEN PyNone
                              ELSE PyFloat(r.frequency_mhz),
            cores |-> PyInt(r.cores)])

\* get_memory_data(): the byte counts are ints; percent and swap_percent are
\* psutil's floats, and the literal 0 in the dict of the except clause.
PyMemoryData(e, r) ==
    PyDict([total |-> PyInt(r.total),
            available |-> PyInt(r.available),
            used |-> PyInt(r.used),
            percent |-> IF e.mem = "raise" THEN PyInt(r.percent) ELSE PyFloat(r.percent),
            swap_total |-> PyInt(r.swap_total),
            swap_used |-> PyInt(r.swap_used),
            swap_percent |-> IF e.mem = "raise" THEN PyInt(r.swap_percent)
                             ELSE PyFloat(r.swap_percent)])

\* An entry of get_disk_data(): usage.percent is a float.
PyDiskData(r) ==
    PyDict([device |-> PyStr(r.device),
            mountpoint |-> PyStr(r.mountpoint),
            fstype |-> PyStr(r.fstype),
            total |-> PyInt(r.total),
            used |-> PyInt(r.used),
            free |-> PyInt(r.free),
            percent |-> PyFloat(r.percent)])

\* An entry of get_network_data(): stats.speed is an int, or None when it is 0.
PyNetworkData(r) ==
    PyDict([name |-> PyStr(r.name),
            is_up |-> PyBool(r.is_up),
            speed_mbps |-> IF r.speed_mbps = None THEN PyNone ELSE PyInt(r.speed_mbps),
            bytes_sent |-> PyInt(r.bytes_sent),
            bytes_recv |-> PyInt(r.bytes_recv)])

\* An entry of get_gpu_data().  pynvml answers utilization and temperature as
\* ints and the power as milliwatts / 1000.0; get_gpu_metrics_nvidia_smi reads
\* utilization, temperature and power with float().  On both paths
\* memory_percent is the float (used / total) * 100, and the literal 0, an int,
\* when the total is 0.  The entry of a GPU without metrics holds None.
PyGpuData(g, r) ==
    LET lib == PynvmlMetricsOk(g, r.index)
        Reading(x) == IF x = None THEN PyNone ELSE IF lib THEN PyInt(x) ELSE PyFloat(x)
    IN PyDict([index |-> PyInt(r.index),
               name |-> PyStr(r.name),
               utilization |-> Reading(r.utilization),
               temperature |-> Reading(r.temperature),
               memory_used |-> IF r.memory_used = None THEN PyNone ELSE PyInt(r.memory_used),
               memory_total |-> PyInt(r.memory_total),
               memory_percent |-> IF r.memory_percent = None THEN PyNone
                                  ELSE IF r.memory_total > 0 THEN PyFloat(r.memory_percent)
                                  ELSE PyInt(r.memory_percent),
               power |-> IF r.power = None THEN PyNone ELSE PyFloat(r.power)])

\* The dict get_all_metrics() returns on machine e, which /api/metrics and /ws
\* serialise.
PyMetrics(e, m) ==
    PyDict([cpu |-> PyCpuData(e, m.cpu),
            memory |-> PyMemoryData(e, m.memory),
            disks |-> PyList([i \in DOMAIN m.disks |-> PyDiskData(m.disks[i])]),
            network |-> PyList([i \in DOMAIN m.network |-> PyNetworkData(m.network[i])]),
            gpu |-> PyList([i \in DOMAIN m.gpu |-> PyGpuData(e.gpu, m.gpu[i])])])

\* C21: the inventory written as JSON, as save_inventory and /api/inventory do,
\* and the metrics written as JSON, as /api/metrics and /ws do, are written
\* without error; the inventory text read back in Python equals the inventory
\* that was built, value for value and type for type; either text parsed by the
\* page equals, field for field, the snapshot that was built.
JsonRoundTrip ==
    /\ buildPc = "done" =>
          LET built == PyInventory(inventory.value)
          IN /\ json_loads(json_dumps(built)) = built
             /\ FieldForField(built, JSON_parse(json_dumps(built)))
    /\ (buildPc \in {"metrics", "done"} /\ ~metrics.raised) =>
          LET built == PyMetrics(env, metrics.value)
          IN FieldForField(built, JSON_parse(json_dumps(built)))

\* The inventory and the metrics of a machine with a disk, a network interface
\* and a GPU whose temperature is not reported were built.
JsonRoundTripWitness ==
    /\ buildPc = "done"
    /\ Len(inventory.value.network) >= 1
    /\ inventory.value.gpu.gpu_count >= 1
    /\ Len(inventory.value.disks) >= 1
    /\ ~metrics.raised
    /\ Len(metrics.value.network) >= 1
    /\ \E i \in DOMAIN metrics.value.gpu :
          /\ metrics.value.gpu[i].temperature = None
          /\ metrics.value.gpu[i].memory_percent # None

\* ------------------------------------------------------------------- C22
Percentage(x) == x \in 0..100
ByteCount(x) == x >= 0

\* The percentages and the byte counts of a live snapshot; a field of a blank
\* GPU entry is None and carries no number.
SnapshotPercentages(m) ==
    {m.cpu.overall, m.memory.percent, m.memory.swap_percent}
    \cup Range(m.cpu.per_core)
    \cup {m.disks[i].percent : i \in DOMAIN m.disks}
    \cup (({m.gpu[i].utilization : i \in DOMAIN m.gpu}
           \cup {m.gpu[i].memory_percent : i \in DOMAIN m.gpu}) \ {None})

SnapshotByteCounts(m) ==
    {m.memory.total, m.memory.available, m.memory.used, m.memory.swap_total,
     m.memory.swap_used}
    \cup UNION {{m.disks[i].total, m.disks[i].used, m.disks[i].free} : i \in DOMAIN m.disks}
    \cup UNION {{m.network[i].bytes_sent, m.network[i].bytes_recv} : i \in DOMAIN m.network}
    \cup ((UNION {{m.gpu[i].memory_used, m.gpu[i].memory_total} : i \in DOMAIN m.gpu})
          \ {None})

\* C22: in every live snapshot the percentages lie in [0, 100] and the byte
\* counts are non-negative; the memory_percent of a GPU reading, from pynvml or
\* from nvidia-smi, is used * 100 / total within [0, 100], and 0 when the total
\* is 0.
PercentagesInRange ==
    (buildPc # "start" /\ ~metrics.raised) =>
        /\ \A x \in SnapshotPercentages(metrics.value) : Percentage(x)
        /\ \A x \in SnapshotByteCounts(metrics.value) : ByteCount(x)
        /\ \A i \in DOMAIN metrics.value.gpu :
              LET entry == metrics.value.gpu[i]
              IN entry.memory_percent # None =>
                    /\ entry.memory_total = 0 => entry.memory_percent = 0
                    /\ entry.memory_total > 0 =>
                          entry.memory_percent = (entry.memory_used * 100) \div entry.memory_total

\* A snapshot holding a reading of an empty memory, taken on the nvidia-smi path.
PercentagesInRangeWitness ==
    /\ buildPc # "start" /\ ~metrics.raised
    /\ ~PYNVML_AVAILABLE(env.gpu)
    /\ \E i \in DOMAIN metrics.value.gpu :
          /\ metrics.value.gpu[i].memory_percent = 0
          /\ metrics.value.gpu[i].memory_total = 0

\* ------------------------------------------------------------------- C23
\* C23: the loop of run() is only ever inside an iteration, and a tick has only
\* ever slept, with a positive update_interval; with an interval of zero or less
\* run() is left by an error raised before the loop.
LoopRunsWithPositiveInterval ==
    /\ dashPc \in {"test", "update", "sleep", "keys"} => update_interval > 0
    /\ clock > 0 => update_interval > 0
    /\ (update_interval <= 0 /\ dashPc = "exited" /\ dashExit # "SystemExit") =>
            (dashExit = "error" /\ dashLeftAt = "ready")

\* ------------------------------------------------------------------- C24
IsPrefix(s, t) == Len(s) <= Len(t) /\ \A i \in 1..Len(s) : t[i] = s[i]

\* C24: a snapshot is not modified after it is built.  In every step, the value
\* a running broadcast hands out stays the one it was called with; what an open
\* connection was sent stays as it was sent, new snapshots only being added
\* behind it; the snapshot a handler is sending is not changed before the send
\* ends; and a tick builds a value that is none of those delivered before.
SnapshotNeverModified ==
    [][/\ bc.pc = "sending" => bc'.data = bc.data
       /\ \A c \in Conns :
             /\ wsPc'[c] # "closed" => IsPrefix(received[c], received'[c])
             /\ (wsPc[c] = "sending" /\ wsPc'[c] = "sending") => wsCur'[c] = wsCur[c]
             /\ wsTicks'[c] > wsTicks[c] =>
                   /\ wsCur'[c] # wsCur[c]
                   /\ \A o \in Conns : \A i \in 1..Len(received[o]) :
                         received[o][i] # wsCur'[c]]_vars

\* A client holds two snapshots of two ticks while a broadcast has reached a
\* connection and is handing its value to the next.
SnapshotNeverModifiedWitness ==
    /\ \E c \in Conns : Len(received[c]) >= 2 /\ received[c][1] # received[c][2]
    /\ bc.pc = "sending" /\ Len(bc.sent) >= 1

\* ------------------------------------------------------------------- C25
\* The list of registered observers changes only in a step of connect (a handler
\* leaves accept and is appended), of disconnect (a handler ends and is taken
\* out) or of broadcast (its removal loop takes out the connections whose send
\* raised).
ObserversChangeThroughHubOnly ==
    [][active_connections' # active_connections =>
          \/ \E c \in Conns :
                /\ wsPc[c] = "accepting" /\ wsPc'[c] = "sending"
                /\ active_connections' = Append(active_connections, c)
          \/ \E c \in Conns :
                /\ wsPc[c] = "sending" /\ wsPc'[c] = "closed"
                /\ active_connections' = Without(active_connections, c)
          \/ /\ bc.pc = "sending" /\ bc'.pc = "done"
             /\ Range(active_connections') =
                    Range(active_connections) \ Range(bc'.disconnected)]_vars

\* C25: there is one collection of observers: the connection list the module
\* declares outside the hub is the hub's list, holding the registered observers.
SingleObserverCollection ==
    global_active_connections = active_connections

\* ------------------------------------------------------------------- C26
\* C26 as stated: the inventory command writes a file only when the caller gave
\* an output path: a run without --output leaves every file as it was.
WritesOnlyToGivenPath ==
    (buildPc = "saved" /\ args_output = NoOutput) => files = FilesBefore

\* The file a run saves to.
Target == IF args_output # NoOutput THEN args_output ELSE DefaultPath

\* C26, amended: every run saves to one file, the one at the path the caller gave
\* or else the one named after the time of the run, and touches no other file and
\* no directory but the parent of that file.  After a save that succeeded the
\* file holds the dump of this run alone, what it held before being replaced and
\* nothing being appended.  After a save that failed the file is as it was or
\* holds the incomplete text of this run alone.
WritesOneSnapshotToOneFile ==
    buildPc \in {"saved", "save_error"} =>
        /\ \A p \in Paths \ {Target} : files[p] = FilesBefore[p]
        /\ dirs \subseteq DirsBefore \cup {Parent(Target)}
        /\ buildPc = "saved" =>
              /\ files[Target] = <<Dump("this")>>
              /\ Parent(Target) \in dirs
        /\ buildPc = "save_error" =>
              files[Target] \in {FilesBefore[Target], <<Truncated("this")>>}

\* A run with --output has replaced the dump an earlier run left at that path.
WritesOneSnapshotToOneFileWitness ==
    /\ buildPc = "saved"
    /\ args_output = GivenPath
    /\ FilesBefore[GivenPath] # <<>>
    /\ files[GivenPath] = <<Dump("this")>>

\* ------------------------------------------------------------------- C27
\* The first n elements of a list, or all of it when it is shorter.
FirstOf(q, n) == SubSeq(q, 1, IF Len(q) < n THEN Len(q) ELSE n)

\* C27: the web collectors cut the OS list to its first 10 elements and filter
\* afterwards: the network result is, in OS order, the interfaces other than
\* "lo" among the first 10, so at most 10 entries, and at most 9 when "lo" is
\* among the first 10; the disk result is the readable partitions among the
\* first 10.
WebCollectorsTruncateFirst ==
    buildPc # "start" =>
        /\ ~env.net.raised =>
              LET seen == FirstOf(env.net.ifs, InterfaceLimit)
                  listed == [i \in DOMAIN metrics.value.network |->
                                metrics.value.network[i].name]
              IN /\ listed = SelectSeq(seen, LAMBDA x : x # "lo")
                 /\ Len(listed) <= InterfaceLimit
                 /\ "lo" \in Range(seen) => Len(listed) <= InterfaceLimit - 1
        /\ ~env.disk.raised =>
              LET listed == [i \in DOMAIN metrics.value.disks |->
                                metrics.value.disks[i].device]
              IN /\ Len(listed) <= PartitionLimit
                 /\ Range(listed) = {k \in 1..Len(env.disk.parts) :
                                        k <= PartitionLimit /\ env.disk.parts[k] = "ok"}

\* The OS reports 11 interfaces with "lo" among the first 10: 9 are listed.
WebCollectorsTruncateFirstWitness ==
    /\ buildPc # "start"
    /\ Len(env.net.ifs) > InterfaceLimit
    /\ "lo" \in Range(FirstOf(env.net.ifs, InterfaceLimit))
    /\ Len(metrics.value.network) = InterfaceLimit - 1

\* ------------------------------------------------------------------- C28
\* The GPUs get_gpu_info reports to get_gpu_data, none when it raised.
ReportedGpus(e) == IF GpuListing(e).raised THEN <<>> ELSE GpuListing(e).value.gpus

\* How many GPUs get_gpu_data goes through before a metrics query raises.
ProcessedGpus(e) ==
    LET gpus == ReportedGpus(e)
        failing == {k \in 1..Len(gpus) : get_gpu_metrics(e.gpu, gpus[k].index).raised}
    IN IF failing = {} THEN Len(gpus)
       ELSE (CHOOSE k \in failing : \A j \in failing : k <= j) - 1

\* C28 as stated: get_gpu_data returns exactly one entry per GPU that
\* get_gpu_info reports, in the same order and with the same index.
OneEntryPerGpu ==
    buildPc # "start" =>
        /\ Len(metrics.value.gpu) = Len(ReportedGpus(env))
        /\ \A i \in 1..Len(metrics.value.gpu) :
              metrics.value.gpu[i].index = ReportedGpus(env)[i].index

\* C28, amended: get_gpu_data returns one entry, in order and with the same
\* index and name, for every reported GPU up to the first one whose metrics
\* query raises, and for all of them when none raises: an entry with the live
\* record when get_gpu_metrics returns one, and otherwise an entry with None
\* readings and the inventory total as memory_total.
OneEntryPerGpuUntilFailure ==
    buildPc # "start" =>
        /\ Len(metrics.value.gpu) = ProcessedGpus(env)
        /\ \A i \in 1..Len(metrics.value.gpu) :
              LET entry == metrics.value.gpu[i]
                  gpu == ReportedGpus(env)[i]
                  m == get_gpu_metrics(env.gpu, gpu.index)
              IN /\ entry.index = gpu.index
                 /\ entry.name = gpu.name
                 /\ m.found =>
                       /\ entry.utilization = m.value.utilization
                       /\ entry.temperature = m.value.temperature
                       /\ entry.memory_used = m.value.memory_used
                       /\ entry.memory_total = m.value.memory_total
                       /\ entry.memory_percent = m.value.memory_percent
                       /\ entry.power = m.value.power
                 /\ ~m.found =>
                       /\ entry.utilization = None /\ entry.temperature = None
                       /\ entry.memory_used = None /\ entry.memory_percent = None
                       /\ entry.power = None
                       /\ entry.memory_total = gpu.total_memory

\* Two GPUs are reported and the query of the second raised: the entry of the
\* first is returned.
OneEntryPerGpuUntilFailureWitness ==
    /\ buildPc # "start"
    /\ Len(ReportedGpus(env)) = 2
    /\ ProcessedGpus(env) = 1
    /\ Len(metrics.value.gpu) = 1

\* ------------------------------------------------------------------- C29
\* C29: in every step of the key check, running keeps its value; "q" or "Q"
\* leaves the loop at once, after the update and the sleep of this tick, and
\* start_time stays; "r" or "R" sets start_time to the current time and the loop
\* goes on; any other key, no key and an input error change nothing and the
\* loop goes on.
KeysActAsDocumented ==
    [][\A key \in Keys :
          DashKey(key) =>
              /\ running' = running
              /\ key \in {"q", "Q"} =>
                    /\ dashPc' = "exited" /\ dashExit' = "return"
                    /\ start_time' = start_time
                    /\ layouts' = layouts
              /\ key \in {"r", "R"} =>
                    /\ start_time' = clock
                    /\ dashPc' = "test"
              /\ key \notin {"q", "Q", "r", "R"} =>
                    /\ start_time' = start_time
                    /\ dashPc' = "test"]_vars

\* The start time was reset in one tick and the loop was ended by "q" in a
\* later one.
KeysActAsDocumentedWitness ==
    /\ dashPc = "exited" /\ dashStop = "quit"
    /\ start_time > 0
    /\ clock > start_time

\* ------------------------------------------------------------------- C30
\* C30: every nvmlInit() that returned is matched by an nvmlShutdown(): after the
\* GPU queries of a build no NVML session is left open.
NvmlSessionsClosed ==
    buildPc # "start" => nvml.inits = nvml.shutdowns

====
